---- MODULE Spec2Model ----
(***************************************************************************)
(* Output validation of the global-market-liquidity-analyst scripts:       *)
(* ValidationResult, OutputValidator and the analyzers' validate_*         *)
(* operations (output_validator.py, central_bank_analyzer.py), with the    *)
(* dicts liquidity_cycle_analyzer.py hands them and the one-list reading   *)
(* of a report in excel_model_generator.py.                                *)
(*                                                                         *)
(* Numbers.  A Python value that reaches the validator is modelled as a    *)
(* record [k, n, d]: k = "num" is the finite number n/d (d > 0, lowest     *)
(* terms), k = "nan" is float('nan'), k = "none" is None.  Arithmetic on   *)
(* "num" values is exact; the inputs drawn below are small, so no float    *)
(* overflow or infinity arises in the code on them.                        *)
(***************************************************************************)
EXTENDS Integers, Sequences, FiniteSets, TLC

VARIABLES
    result,     \* a ValidationResult object that callers fill through add_*
    validator,  \* the OutputValidator instance: tolerance, expected_ranges
    last,       \* the last operation called on the validator: op, args, ret
    inputs,     \* the caller's frame: references to its table, its analysis_results
                \* and its reports; the tolerance its validator was made with
    objects,    \* the heap: the objects alive, by reference
    checked_urls, \* URLValidator.checked_urls: the results of the URLs checked so far
    requests,   \* the network requests the URLValidator has issued, in order
    now,        \* the clock datetime.now() reads, in calls of validate_url so far
    calls,      \* what each concurrent caller is in the middle of
    VALIDATOR_AVAILABLE,  \* whether `from output_validator import ...` succeeded
    OPENPYXL_AVAILABLE    \* whether `from openpyxl import ...` succeeded

\* what the callers of the validate_* operations above hold besides
held == <<inputs, objects, checked_urls, requests, now, calls, VALIDATOR_AVAILABLE,
         OPENPYXL_AVAILABLE>>

vars == <<result, validator, last, inputs, objects, checked_urls, requests, now, calls,
          VALIDATOR_AVAILABLE, OPENPYXL_AVAILABLE>>

\* the flags the analyzer modules set once, when they are imported
imports == <<VALIDATOR_AVAILABLE, OPENPYXL_AVAILABLE>>

----------------------------------------------------------------------------
(* Bounds of the model *)

\* most entries the add_* calls put into one ValidationResult
MaxEntries == 3
\* most ValidationResult objects a caller holds at a time
MaxReports == 2
\* most entries the holder of a report adds to it
MaxNotes == 1
\* most validate_url calls made on one URLValidator
MaxCalls == 3
\* integer inputs of the numeric operations range over -MaxInt..MaxInt
MaxInt == 2

----------------------------------------------------------------------------
(* Statements in sequence *)

\* a statement's value, computed once, and what follows it in the body
Bound(value, Following(_)) == CHOOSE out \in {Following(bound) : bound \in {value}} : TRUE

----------------------------------------------------------------------------
(* Numbers *)

Abs(i) == IF i < 0 THEN -i ELSE i

RECURSIVE GCD(_, _)
GCD(a, b) == IF b = 0 THEN a ELSE GCD(b, a % b)

\* the number n/d, d > 0, in lowest terms
R(n, d) ==
    LET g == GCD(Abs(n), d)
    IN  [k |-> "num", n |-> n \div g, d |-> d \div g]

Num(i) == R(i, 1)

\* str(i) of an int i >= 0
RECURSIVE IntStr(_)
IntStr(i) ==
    IF i < 10
    THEN <<"0", "1", "2", "3", "4", "5", "6", "7", "8", "9">>[i + 1]
    ELSE IntStr(i \div 10) \o <<"0", "1", "2", "3", "4", "5", "6", "7", "8", "9">>[(i % 10) + 1]
NaN == [k |-> "nan", n |-> 0, d |-> 1]
None == [k |-> "none", n |-> 0, d |-> 1]

IsNum(x) == x.k = "num"
\* pd.isna(x): true of float('nan') and of None
isna(x) == x.k \in {"nan", "none"}
\* bool(x): None and 0 are falsy, nan and every other number truthy
Truthy(x) == x.k = "nan" \/ (x.k = "num" /\ x.n # 0)

\* float arithmetic; nan propagates
RSub(a, b) == IF IsNum(a) /\ IsNum(b) THEN R(a.n * b.d - b.n * a.d, a.d * b.d) ELSE NaN
RAdd(a, b) == IF IsNum(a) /\ IsNum(b) THEN R(a.n * b.d + b.n * a.d, a.d * b.d) ELSE NaN
RMul(a, b) == IF IsNum(a) /\ IsNum(b) THEN R(a.n * b.n, a.d * b.d) ELSE NaN
\* a / b for b # 0
RDiv(a, b) ==
    IF IsNum(a) /\ IsNum(b)
    THEN IF b.n > 0 THEN R(a.n * b.d, a.d * b.n) ELSE R(-(a.n * b.d), a.d * (-b.n))
    ELSE NaN
RAbs(a) == IF IsNum(a) THEN R(Abs(a.n), a.d) ELSE NaN
\* n/d compared with m/e through their integer parts, then their remainders
FracLe(n, d, m, e) ==
    LET qa == n \div d
        qb == m \div e
    IN  IF qa # qb THEN qa < qb ELSE (n % d) * e <= (m % e) * d

\* float comparisons; every comparison with nan is false
RLe(a, b) == IsNum(a) /\ IsNum(b) /\ FracLe(a.n, a.d, b.n, b.d)
RLt(a, b) == IsNum(a) /\ IsNum(b) /\ ~FracLe(b.n, b.d, a.n, a.d)
RGt(a, b) == RLt(b, a)

----------------------------------------------------------------------------
(* ValidationResult, output_validator.py:26-69 *)

\* an entry of the errors / warnings list
Entry(check_name, message, details) ==
    [check |-> check_name, message |-> message, details |-> details]

\* an entry of the passed list (no details key)
PassedEntry(check_name, message) ==
    [check |-> check_name, message |-> message, details |-> <<>>]

ValidationResult__init__ ==
    [errors |-> <<>>, warnings |-> <<>>, passed |-> <<>>, is_valid |-> TRUE]

\* the stand-in class the analyzer modules define when output_validator
\* cannot be imported (monetary_aggregates_analyzer.py:23-28 and the like):
\* the same four attributes and no add_* method
DummyValidationResultInvalid ==
    [errors |-> <<>>, warnings |-> <<>>, passed |-> <<>>, is_valid |-> FALSE]

DummyValidationResult ==
    [errors |-> <<>>, warnings |-> <<>>, passed |-> <<>>, is_valid |-> TRUE]

add_error_keeps_valid(r, check_name, message, details) ==
    [r EXCEPT !.errors = Append(@, Entry(check_name, message, details))]

add_error(r, check_name, message, details) ==
    [r EXCEPT !.errors = Append(@, Entry(check_name, message, details)),
              !.is_valid = FALSE]

add_warning(r, check_name, message, details) ==
    [r EXCEPT !.warnings = Append(@, Entry(check_name, message, details))]

add_passed_first(r, check_name, message) ==
    [r EXCEPT !.passed = <<PassedEntry(check_name, message)>> \o @]

add_passed(r, check_name, message) ==
    [r EXCEPT !.passed = Append(@, PassedEntry(check_name, message))]

\* result.errors.extend(o.errors); warnings and passed likewise; is_valid untouched
Extend(r, o) ==
    [r EXCEPT !.errors = @ \o o.errors,
              !.warnings = @ \o o.warnings,
              !.passed = @ \o o.passed]

\* the one list a report is read as: ExcelModelGenerator._create_validation_sheet,
\* excel_model_generator.py:539-541, extends validation_results with the
\* errors, then the warnings, then the passed entries
ReportRows(r) == r.errors \o r.warnings \o r.passed

----------------------------------------------------------------------------
(* OutputValidator, output_validator.py:72-89 *)

DefaultTolerance == R(1, 100)

expected_ranges ==
    [growth_rate |-> <<Num(-50), Num(100)>>,
     cycle_length_months |-> <<Num(50), Num(75)>>,
     velocity |-> <<R(1, 2), Num(15)>>,
     correlation |-> <<Num(-1), Num(1)>>,
     percent_change |-> <<Num(-100), Num(500)>>]

OutputValidator__init__(tolerance) ==
    [tolerance |-> tolerance, expected_ranges |-> expected_ranges]

----------------------------------------------------------------------------
(* OutputValidator.validate_percent_change, output_validator.py:91-126 *)

\* what a call returns, or that it raised: the (is_valid, message) tuple, the
\* expected_change and difference the message prints, and whether line 117 ran
PcReturn(is_valid, message, expected_change, difference, divided) ==
    [ok |-> is_valid, message |-> message, expected |-> expected_change,
     difference |-> difference, divided |-> divided, raised |-> FALSE]

PcRaise(exception) ==
    [ok |-> FALSE, message |-> exception, expected |-> None,
     difference |-> None, divided |-> TRUE, raised |-> TRUE]

PcPreviousUnusableNoZeroTest(value_previous) == isna(value_previous)

\* line 110: value_previous == 0 or pd.isna(value_previous)
PcPreviousUnusable(value_previous) ==
    (IsNum(value_previous) /\ value_previous.n = 0) \/ isna(value_previous)

\* line 113: pd.isna(value_current) or pd.isna(reported_change)
PcInputUndefined(value_current, reported_change) ==
    isna(value_current) \/ isna(reported_change)

\* line 116: tol = tolerance or self.tolerance
PcTol(self, tolerance) ==
    IF Truthy(tolerance) THEN tolerance ELSE self.tolerance

PcExpectedChangeAsFraction(value_current, value_previous) ==
    RDiv(RSub(value_current, value_previous), value_previous)

\* line 117: ((value_current - value_previous) / value_previous) * 100
PcExpectedChange(value_current, value_previous) ==
    RMul(RDiv(RSub(value_current, value_previous), value_previous), Num(100))

\* line 118: abs(expected_change - reported_change)
PcDifference(expected_change, reported_change) ==
    RAbs(RSub(expected_change, reported_change))

\* line 120: difference <= tol
PcWithin(difference, tol) == RLe(difference, tol)

\* lines 110-114: the call returns before it reads the validator
PcReturnsEarly(value_current, value_previous, reported_change) ==
    PcPreviousUnusable(value_previous) \/ PcInputUndefined(value_current, reported_change)

\* lines 110-114: what it returns then
PcEarlyReturn(value_current, value_previous, reported_change) ==
    IF PcPreviousUnusable(value_previous)
    THEN PcReturn(FALSE, "Cannot calculate percent change: previous value is zero or NaN",
                  None, None, FALSE)
    ELSE PcReturn(FALSE, "Cannot validate: current value or reported change is NaN",
                  None, None, FALSE)

PcLine116StoringTheTolerance(self, tolerance) ==
    [self |-> [self EXCEPT !.tolerance = PcTol(self, tolerance)],
     tol |-> PcTol(self, tolerance)]

\* line 116 as a statement: the validator and the local tol after it.  The
\* target of the assignment is the local name tol, no attribute of self.
PcLine116(self, tolerance) ==
    [self |-> self, tol |-> PcTol(self, tolerance)]

\* lines 117-126: the rest of the call, which reads its arguments and the
\* local tol only
PcFromLine117(value_current, value_previous, reported_change, tol) ==
    IF value_previous.n = 0   \* line 117 would divide by zero
    THEN PcRaise("ZeroDivisionError")
    ELSE LET expected_change == PcExpectedChange(value_current, value_previous)
             difference == PcDifference(expected_change, reported_change)
         IN  IF PcWithin(difference, tol)
             THEN PcReturn(TRUE, "Percent change validated", expected_change, difference, TRUE)
             ELSE PcReturn(FALSE, "Percent change mismatch", expected_change, difference, TRUE)

validate_percent_change(self, value_current, value_previous, reported_change, tolerance) ==
    IF PcReturnsEarly(value_current, value_previous, reported_change)
    THEN PcEarlyReturn(value_current, value_previous, reported_change)
    ELSE PcFromLine117(value_current, value_previous, reported_change,
                       PcLine116(self, tolerance).tol)

----------------------------------------------------------------------------
(* OutputValidator.validate_report_numerical_accuracy,                     *)
(* output_validator.py:355-422.  A report text is given with what the      *)
(* operation reads of it: the numbers the two patterns find in it (lines   *)
(* 374-379) and the numerals asked for at line 389 that occur in it.       *)
(* source_data is the sequence of its (key, value) items, the values ints  *)
(* above zero.                                                             *)

ReportText(text, percentages, growth_rates, numerals) ==
    [text |-> text, percentages |-> percentages, growth_rates |-> growth_rates,
     numerals |-> numerals]

\* line 395: percentages + growth_rates
RaExtracted(report_text) == report_text.percentages \o report_text.growth_rates

\* lines 388-389: f"{expected_value:.2f}" or str(int(expected_value)) occurs
\* in the text
RaMentioned(report_text, expected_value) ==
    \/ (IntStr(expected_value) \o ".00") \in report_text.numerals
    \/ IntStr(expected_value) \in report_text.numerals

\* line 397 reads self.tolerance:
\* abs(extracted_val - expected_value) < abs(expected_value) * self.tolerance
RaLine397(self, extracted_val, expected_value) ==
    RLt(RAbs(RSub(extracted_val, Num(expected_value))),
        RMul(RAbs(Num(expected_value)), self.tolerance))

\* lines 405-410
RaNotFound(r, key, expected_value) ==
    add_warning(r, "report_numerical_accuracy",
        "Key metric \"" \o key \o "\" (value: " \o IntStr(expected_value)
            \o ") not found in report with expected accuracy", <<>>)

\* lines 412-416
RaReturn(r, validated_count, mismatch_count) ==
    IF mismatch_count = 0
    THEN add_passed(r, "report_numerical_accuracy",
             "All " \o IntStr(validated_count) \o " key metrics found in report")
    ELSE r

\* the locals of a call: the item i of source_data it is at and the
\* extracted value k it is to compare next (0 before the test of line 389)
RaStart ==
    [i |-> 1, k |-> 0, validated_count |-> 0, mismatch_count |-> 0,
     result |-> ValidationResult__init__]

RECURSIVE RaToLine397(_, _, _)
\* lines 385-418 from the locals of frame on, up to the next read of self at
\* line 397 or to the return
RaToLine397(frame, report_text, source_data) ==
    IF frame.i > Len(source_data)
    THEN [returns |-> TRUE, frame |-> frame,
          ret |-> RaReturn(frame.result, frame.validated_count, frame.mismatch_count)]
    ELSE IF frame.k = 0
    THEN IF RaMentioned(report_text, source_data[frame.i][2])
         THEN RaToLine397([frame EXCEPT !.i = @ + 1, !.validated_count = @ + 1],
                          report_text, source_data)
         ELSE RaToLine397([frame EXCEPT !.k = 1], report_text, source_data)
    ELSE IF frame.k > Len(RaExtracted(report_text))
    THEN RaToLine397([frame EXCEPT !.i = @ + 1, !.k = 0, !.mismatch_count = @ + 1,
                                   !.result = RaNotFound(@, source_data[frame.i][1],
                                                         source_data[frame.i][2])],
                     report_text, source_data)
    ELSE [returns |-> FALSE, frame |-> frame, ret |-> frame.result]

\* lines 397-399 for the extracted value the call is at: found and break,
\* or the next extracted value
RaFromLine397(self, frame, report_text, source_data) ==
    IF RaLine397(self, RaExtracted(report_text)[frame.k], source_data[frame.i][2])
    THEN [frame EXCEPT !.i = @ + 1, !.k = 0]
    ELSE [frame EXCEPT !.k = @ + 1]

RECURSIVE RaLoop(_, _, _, _)
RaLoop(self, frame, report_text, source_data) ==
    Bound(RaToLine397(frame, report_text, source_data), LAMBDA at :
    IF at.returns
    THEN at.ret
    ELSE Bound(RaFromLine397(self, at.frame, report_text, source_data), LAMBDA after :
         RaLoop(self, after, report_text, source_data)))

validate_report_numerical_accuracy(self, report_text, source_data) ==
    RaLoop(self, RaStart, report_text, source_data)

----------------------------------------------------------------------------
(* OutputValidator.validate_range and its two wrappers, output_validator.py:424-485 *)

RangeReturn(is_valid, message) == [ok |-> is_valid, message |-> message]

RangeOutsideExclusive(value, min_val, max_val) ==
    RLe(value, min_val) \/ RLe(max_val, value)

\* line 449: value < min_val or value > max_val
RangeOutside(value, min_val, max_val) ==
    RLt(value, min_val) \/ RGt(value, max_val)

\* line 441 reads self.expected_ranges: metric_type not in it
RangeLine441(self, metric_type) == metric_type \notin DOMAIN self.expected_ranges

\* line 444 reads self.expected_ranges again: the (min_val, max_val) bound to
\* two locals, for a key that is there
RangeLine444(self, metric_type) == self.expected_ranges[metric_type]

\* lines 446-455: the rest of the call, which reads its arguments and the
\* two locals only
RangeFromLine446(value, min_val, max_val) ==
    IF isna(value)
    THEN RangeReturn(FALSE, "Value is NaN")
    ELSE IF RangeOutside(value, min_val, max_val)
    THEN RangeReturn(FALSE, "outside expected range")
    ELSE RangeReturn(TRUE, "within expected range")

validate_range(self, value, metric_type) ==
    IF RangeLine441(self, metric_type)
    THEN RangeReturn(TRUE, "Unknown metric type")
    ELSE LET bounds == RangeLine444(self, metric_type)
         IN  RangeFromLine446(value, bounds[1], bounds[2])

validate_cycle_length(self, cycle_length_months) ==
    validate_range(self, cycle_length_months, "cycle_length_months")

validate_correlation(self, correlation) ==
    validate_range(self, correlation, "correlation")

----------------------------------------------------------------------------
(* OutputValidator.validate_monetary_aggregates_hierarchy,                 *)
(* output_validator.py:487-537.  aggregates is a dict: a function from the *)
(* keys it holds to their values.  Messages keep their text and the names  *)
(* they print (the source's sign for <= written "<="); the numbers they    *)
(* print are in the details.                                               *)

hierarchy == <<"M0", "M1", "M2", "M3">>

HierBadValueZeroAllowed(val) == isna(val) \/ RLt(val, Num(0))

\* line 508: pd.isna(val) or val <= 0
HierBadValue(val) == isna(val) \/ RLe(val, Num(0))

\* lines 505-514: the first key of the hierarchy whose value is bad, or 0
HierFirstBad(aggregates) ==
    LET bad == {i \in 1..Len(hierarchy) :
                    /\ hierarchy[i] \in DOMAIN aggregates
                    /\ HierBadValue(aggregates[hierarchy[i]])}
    IN  IF bad = {} THEN 0 ELSE CHOOSE i \in bad : \A j \in bad : i <= j

\* lines 503-514: values, the entries of aggregates under a hierarchy key
HierValuesOf(aggregates) ==
    [agg \in {hierarchy[i] : i \in 1..Len(hierarchy)} \cap DOMAIN aggregates
        |-> aggregates[agg]]

HierViolatesOrEqual(current_value, next_value) == RLe(next_value, current_value)

\* line 522: values[current] > values[next_agg]
HierViolates(current_value, next_value) == RGt(current_value, next_value)

\* lines 518-532: one turn of the loop over adjacent pairs
HierCheckPair(r, values, i) ==
    LET current == hierarchy[i]
        next_agg == hierarchy[i + 1]
    IN  IF current \in DOMAIN values /\ next_agg \in DOMAIN values
        THEN IF HierViolates(values[current], values[next_agg])
             THEN add_error(r, "monetary_aggregates_hierarchy",
                            "Hierarchy violation: " \o current \o " > " \o next_agg,
                            [current |-> values[current], next |-> values[next_agg]])
             ELSE add_passed(r, "monetary_aggregates_hierarchy",
                             current \o " <= " \o next_agg)
        ELSE r

RECURSIVE HierCheckPairsStopAtFirstError(_, _, _)
HierCheckPairsStopAtFirstError(r, values, i) ==
    IF i > Len(hierarchy) - 1 \/ ~r.is_valid
    THEN r
    ELSE HierCheckPairsStopAtFirstError(HierCheckPair(r, values, i), values, i + 1)

\* lines 517-532: for i in range(len(hierarchy) - 1)
RECURSIVE HierCheckPairs(_, _, _)
HierCheckPairs(r, values, i) ==
    IF i > Len(hierarchy) - 1
    THEN r
    ELSE HierCheckPairs(HierCheckPair(r, values, i), values, i + 1)

\* lines 534-535
HierSummary(r) ==
    IF r.is_valid
    THEN add_passed(r, "monetary_aggregates_hierarchy",
                    "Monetary aggregates hierarchy is correct")
    ELSE r

validate_monetary_aggregates_hierarchy(aggregates) ==
    LET bad == HierFirstBad(aggregates)
    IN  IF bad # 0
        THEN add_error(ValidationResult__init__, "monetary_aggregates_hierarchy",
                       hierarchy[bad] \o " is missing, zero, or negative", <<>>)
        ELSE HierSummary(HierCheckPairs(ValidationResult__init__,
                                        HierValuesOf(aggregates), 1))

----------------------------------------------------------------------------
(* OutputValidator.validate_policy_stance_consistency,                     *)
(* output_validator.py:539-581.  An operation that raises returns          *)
(* Raised(exception) in place of its value.                                *)

Raised(exception) == [raised |-> exception]
IsRaised(x) == "raised" \in DOMAIN x

\* a < b or a > b with an operand None raises TypeError
CmpRaises(a) == a.k = "none"

validate_policy_stance_consistency(policy_stance, balance_sheet_change, yoy_change) ==
    LET r == ValidationResult__init__
        details == [stance |-> policy_stance, change |-> balance_sheet_change,
                    yoy |-> yoy_change]
    IN  IF policy_stance = "expansive"
        THEN IF CmpRaises(balance_sheet_change) THEN Raised("TypeError")
             ELSE IF RLt(balance_sheet_change, Num(0))
             THEN IF CmpRaises(yoy_change) THEN Raised("TypeError")
                  ELSE IF RLt(yoy_change, Num(-5))
                  THEN add_error(r, "policy_stance_consistency",
                           "Policy stance is expansive but balance sheet is contracting",
                           details)
                  ELSE add_passed(r, "policy_stance_consistency",
                           "Expansive policy matches balance sheet growth")
             ELSE add_passed(r, "policy_stance_consistency",
                      "Expansive policy matches balance sheet growth")
        ELSE IF policy_stance = "contractive"
        THEN IF CmpRaises(balance_sheet_change) THEN Raised("TypeError")
             ELSE IF RGt(balance_sheet_change, Num(0))
             THEN IF CmpRaises(yoy_change) THEN Raised("TypeError")
                  ELSE IF RGt(yoy_change, Num(5))
                  THEN add_warning(r, "policy_stance_consistency",
                           "Policy stance is contractive but balance sheet is expanding",
                           details)
                  ELSE add_passed(r, "policy_stance_consistency",
                           "Contractive policy matches balance sheet contraction")
             ELSE add_passed(r, "policy_stance_consistency",
                      "Contractive policy matches balance sheet contraction")
        ELSE add_passed(r, "policy_stance_consistency",
                        "Policy stance " \o policy_stance \o " is neutral or mixed")

----------------------------------------------------------------------------
(* CentralBankAnalyzer.validate_balance_sheet_calculations and             *)
(* validate_output, central_bank_analyzer.py:264-397, with the             *)
(* output_validator module importable (VALIDATOR_AVAILABLE).               *)
(* balance_sheet_data is a sequence of rows [central_bank, date,           *)
(* total_assets]; analysis_results and bank_data are dicts: functions from *)
(* the keys they hold; by_bank is the sequence of its (bank, bank_data)    *)
(* items in the dict's order.                                              *)

RECURSIVE SortByDate(_)
\* df.sort_values(date_column).reset_index(drop=True), dates distinct
SortByDate(rows) ==
    IF rows = <<>>
    THEN <<>>
    ELSE LET first == CHOOSE i \in 1..Len(rows) :
                          \A j \in 1..Len(rows) : rows[i].date <= rows[j].date
         IN  <<rows[first]>> \o
             SortByDate(SubSeq(rows, 1, first - 1) \o SubSeq(rows, first + 1, Len(rows)))

\* lines 301-302: the rows of one bank, by date
BankFrame(df, bank) ==
    LET OfBank(row) == row.central_bank = bank
    IN  SortByDate(SelectSeq(df, OfBank))

\* column.iloc[k] for k < 0
iloc(rows, k) == rows[Len(rows) + 1 + k]

\* lines 312-331: the YoY check of one bank
CbYoyCheck(r, bank, bank_data, bank_df) ==
    IF "yoy_change_percent" \in DOMAIN bank_data
    THEN LET current_assets == iloc(bank_df, -1).total_assets
             assets_12m_ago == iloc(bank_df, -13).total_assets
             reported_yoy == bank_data.yoy_change_percent
             checked == validate_percent_change(OutputValidator__init__(DefaultTolerance),
                            current_assets, assets_12m_ago, reported_yoy, None)
         IN  IF assets_12m_ago # Num(0)
             THEN IF checked.ok
                  THEN add_passed(r, bank \o "_yoy_change", bank \o " YoY change validated")
                  ELSE add_error(r, bank \o "_yoy_change",
                                 bank \o " YoY change: " \o checked.message,
                                 [reported |-> reported_yoy, bank |-> bank])
             ELSE r
    ELSE r

\* bank_data.get('yoy_change_percent', 0)
CbYoyOrZero(bank_data) ==
    IF "yoy_change_percent" \in DOMAIN bank_data
    THEN bank_data.yoy_change_percent
    ELSE Num(0)

\* lines 334-346: the policy stance check of one bank, merged into r
CbStanceCheck(r, bank_data) ==
    IF "policy_stance" \in DOMAIN bank_data /\ "recent_monthly_change" \in DOMAIN bank_data
    THEN LET stance_result ==
                 validate_policy_stance_consistency(bank_data.policy_stance,
                     bank_data.recent_monthly_change, CbYoyOrZero(bank_data))
         IN  IF IsRaised(stance_result) THEN stance_result ELSE Extend(r, stance_result)
    ELSE r

\* central_bank_analyzer.py:162-167: a comparison or abs() of None raises
\* TypeError; `and` evaluates its right operand only when the left one is true,
\* and one of recent_change > 0, recent_change < 0, abs(recent_change) < 0.01
\* is true of every number, so a number reaches a comparison of yoy_change
DeterminePolicyStanceRaises(recent_change, yoy_change) ==
    \/ CmpRaises(recent_change)
    \/ IsNum(recent_change) /\ CmpRaises(yoy_change)

determine_policy_stance_labels_swapped(recent_change, yoy_change) ==
    IF DeterminePolicyStanceRaises(recent_change, yoy_change) THEN Raised("TypeError")
    ELSE IF RGt(recent_change, Num(0)) /\ RGt(yoy_change, Num(5)) THEN "contractive"
    ELSE IF RLt(recent_change, Num(0)) /\ RLt(yoy_change, Num(-5)) THEN "expansive"
    ELSE IF RLt(RAbs(recent_change), R(1, 100)) /\ RLt(RAbs(yoy_change), Num(1))
    THEN "neutral"
    ELSE "mixed"

\* CentralBankAnalyzer._determine_policy_stance, central_bank_analyzer.py:156-169
determine_policy_stance(recent_change, yoy_change) ==
    IF DeterminePolicyStanceRaises(recent_change, yoy_change) THEN Raised("TypeError")
    ELSE IF RGt(recent_change, Num(0)) /\ RGt(yoy_change, Num(5)) THEN "expansive"
    ELSE IF RLt(recent_change, Num(0)) /\ RLt(yoy_change, Num(-5)) THEN "contractive"
    ELSE IF RLt(RAbs(recent_change), R(1, 100)) /\ RLt(RAbs(yoy_change), Num(1))
    THEN "neutral"
    ELSE "mixed"

\* lines 348-349: the except clause
CbExcept(r) ==
    add_error(r, "balance_sheet_calculations_validation",
              "Error validating balance sheet calculations", <<>>)

RECURSIVE CbBankLoop(_, _, _, _)
\* lines 300-346: for bank, bank_data in analysis_results['by_bank'].items()
CbBankLoop(r, by_bank, i, df) ==
    IF i > Len(by_bank)
    THEN r
    ELSE LET bank == by_bank[i][1]
             bank_data == by_bank[i][2]
             bank_df == BankFrame(df, bank)
         IN  IF Len(bank_df) < 13
             THEN CbBankLoop(add_warning(r, bank \o "_calculations",
                                 "Insufficient data for " \o bank \o " validation", <<>>),
                             by_bank, i + 1, df)
             ELSE LET checked == CbStanceCheck(CbYoyCheck(r, bank, bank_data, bank_df),
                                               bank_data)
                  IN  IF IsRaised(checked)
                      THEN CbExcept(CbYoyCheck(r, bank, bank_data, bank_df))
                      ELSE CbBankLoop(checked, by_bank, i + 1, df)

validate_balance_sheet_calculations(analysis_results, balance_sheet_data) ==
    IF ~VALIDATOR_AVAILABLE
    THEN DummyValidationResult
    ELSE IF "by_bank" \notin DOMAIN analysis_results
    THEN add_warning(ValidationResult__init__, "balance_sheet_calculations",
                     "No bank data found in analysis results", <<>>)
    ELSE CbBankLoop(ValidationResult__init__, analysis_results.by_bank, 1,
                    balance_sheet_data)

\* result.is_valid = len(result.errors) == 0
RecomputeIsValid(r) == [r EXCEPT !.is_valid = (Len(r.errors) = 0)]

\* CentralBankAnalyzer.validate_output, lines 377-397
CentralBank_validate_output(analysis_results, balance_sheet_data) ==
    IF ~VALIDATOR_AVAILABLE
    THEN DummyValidationResult
    ELSE RecomputeIsValid(
             Extend(ValidationResult__init__,
                    validate_balance_sheet_calculations(analysis_results,
                                                        balance_sheet_data)))

----------------------------------------------------------------------------
(* OutputValidator.validate_cycle_phase_consistency,                       *)
(* output_validator.py:203-290.  A DataFrame is a record [columns, rows]:  *)
(* the set of its column names and the sequence of its rows, each row a    *)
(* record with one field per column; pd.DataFrame() has no column and no   *)
(* row.  cycle_analysis and phase_info are dicts: functions from the keys  *)
(* they hold.  The values of the value column are positive numbers, so     *)
(* pct_change divides by no zero and meets no NaN.                         *)

\* pd.DataFrame()
EmptyDataFrame == [columns |-> {}, rows |-> <<>>]

\* d.get(key, default)
Get(d, key, default) == IF key \in DOMAIN d THEN d[key] ELSE default

\* lines 284-288: the except clause; the result keeps what it already holds
CpExcept(r) ==
    add_error(r, "cycle_phase_consistency", "Error validating cycle phase", <<>>)

CpUnknownPhaseAsPassed(r) ==
    add_passed(r, "cycle_phase_consistency", "Phase is unknown, cannot validate")

\* lines 232-234
CpUnknownPhase(r) ==
    add_warning(r, "cycle_phase_consistency", "Phase is unknown, cannot validate", <<>>)

RECURSIVE CpSumPctChange(_, _)
\* the sum of values[i+1] / values[i] - 1 over the neighbours from i on
CpSumPctChange(values, i) ==
    IF i >= Len(values)
    THEN Num(0)
    ELSE RAdd(RSub(RDiv(values[i + 1], values[i]), Num(1)), CpSumPctChange(values, i + 1))

CpRecentTrendPctMeanOfSix(df, value_column) ==
    LET last6 == [i \in 1..6 |-> df[Len(df) - 6 + i][value_column]]
    IN  RMul(RDiv(CpSumPctChange(last6, 1), Num(6)), Num(100))

\* lines 244-245: df[value_column].iloc[-6:].pct_change().mean() * 100, the
\* mean taken over the five changes (the first element has none)
CpRecentTrendPct(df, value_column) ==
    LET last6 == [i \in 1..6 |-> df[Len(df) - 6 + i][value_column]]
    IN  RMul(RDiv(CpSumPctChange(last6, 1), Num(5)), Num(100))

CpTrendCheckSameSeverity(r, phase, recent_trend_pct) ==
    LET details == [phase |-> phase, trend |-> recent_trend_pct]
    IN  IF phase = "expansion" /\ RLt(recent_trend_pct, Num(-2))
        THEN add_error(r, "cycle_phase_consistency",
                       "Expansion phase but negative trend", details)
        ELSE IF phase = "contraction" /\ RGt(recent_trend_pct, Num(2))
        THEN add_error(r, "cycle_phase_consistency",
                       "Contraction phase but positive trend", details)
        ELSE add_passed(r, "cycle_phase_consistency",
                        "Phase \"" \o phase \o "\" matches trend")

\* lines 247-264
CpTrendCheck(r, phase, recent_trend_pct) ==
    LET details == [phase |-> phase, trend |-> recent_trend_pct]
    IN  IF phase = "expansion" /\ RLt(recent_trend_pct, Num(-2))
        THEN add_error(r, "cycle_phase_consistency",
                       "Expansion phase but negative trend", details)
        ELSE IF phase = "contraction" /\ RGt(recent_trend_pct, Num(2))
        THEN add_warning(r, "cycle_phase_consistency",
                         "Contraction phase but positive trend", details)
        ELSE add_passed(r, "cycle_phase_consistency",
                        "Phase \"" \o phase \o "\" matches trend")

\* lines 266-282: the cycle completion check, merged into r; arithmetic on
\* None raises TypeError, which the except clause turns into an error entry
CpCompletionCheck(r, phase_info) ==
    LET cycle_completion == Get(phase_info, "cycle_completion_percent", Num(0))
        months_elapsed == Get(phase_info, "months_elapsed", Num(0))
        to_turning_point == Get(phase_info, "months_to_turning_point", None)
    IN  IF ~Truthy(to_turning_point)
        THEN r
        ELSE IF months_elapsed.k = "none"
        THEN CpExcept(r)
        ELSE LET cycle_length == RAdd(to_turning_point, months_elapsed)
             IN  IF ~(Truthy(cycle_length) /\ RGt(cycle_length, Num(0)))
                 THEN r
                 ELSE IF cycle_completion.k = "none"
                 THEN CpExcept(r)
                 ELSE LET expected_completion ==
                              RMul(RDiv(months_elapsed, cycle_length), Num(100))
                          completion_diff ==
                              RAbs(RSub(cycle_completion, expected_completion))
                      IN  IF RGt(completion_diff, Num(5))
                          THEN add_error(r, "cycle_completion_consistency",
                                   "Cycle completion mismatch",
                                   [reported |-> cycle_completion,
                                    expected |-> expected_completion,
                                    difference |-> completion_diff])
                          ELSE add_passed(r, "cycle_completion_consistency",
                                   "Cycle completion percentage is consistent")

validate_cycle_phase_consistency(cycle_analysis, liquidity_data, value_column, date_column) ==
    LET r == ValidationResult__init__
    IN  IF "current_phase" \notin DOMAIN cycle_analysis
        THEN add_warning(r, "cycle_phase_consistency",
                         "No current phase information available", <<>>)
        ELSE LET phase_info == cycle_analysis.current_phase
                 phase == Get(phase_info, "phase", "unknown")
             IN  IF phase = "unknown"
                 THEN CpUnknownPhase(r)
                 ELSE IF date_column \notin liquidity_data.columns   \* sort_values: KeyError
                 THEN CpExcept(r)
                 ELSE LET df == SortByDate(liquidity_data.rows)
                      IN  IF Len(df) < 6
                          THEN add_warning(r, "cycle_phase_consistency",
                                   "Insufficient data for trend validation", <<>>)
                          ELSE IF value_column \notin liquidity_data.columns   \* KeyError
                          THEN CpExcept(r)
                          ELSE CpCompletionCheck(
                                   CpTrendCheck(r, phase, CpRecentTrendPct(df, value_column)),
                                   phase_info)

----------------------------------------------------------------------------
(* OutputValidator.validate_growth_rate_consistency,                       *)
(* output_validator.py:128-201 *)

\* lines 195-199: the except clause
GrExcept(r) ==
    add_error(r, "growth_rate_consistency", "Error checking growth rate consistency", <<>>)

RECURSIVE GrCumulativeMomSummed(_, _, _, _)
GrCumulativeMomSummed(df, value_column, i, cumulative_mom) ==
    IF i >= 0
    THEN cumulative_mom
    ELSE LET prev_val == iloc(df, i - 1)[value_column]
             curr_val == iloc(df, i)[value_column]
         IN  IF i > -Len(df) /\ prev_val # Num(0)
             THEN GrCumulativeMomSummed(df, value_column, i + 1,
                      RAdd(cumulative_mom, RSub(RDiv(curr_val, prev_val), Num(1))))
             ELSE GrCumulativeMomSummed(df, value_column, i + 1, cumulative_mom)

RECURSIVE GrCumulativeMom(_, _, _, _)
\* lines 169-176: for i in range(-12, 0), from cumulative_mom on
GrCumulativeMom(df, value_column, i, cumulative_mom) ==
    IF i >= 0
    THEN cumulative_mom
    ELSE LET prev_val == iloc(df, i - 1)[value_column]
             curr_val == iloc(df, i)[value_column]
         IN  IF i > -Len(df) /\ prev_val # Num(0)
             THEN GrCumulativeMom(df, value_column, i + 1,
                      RMul(cumulative_mom,
                           RAdd(Num(1), RSub(RDiv(curr_val, prev_val), Num(1)))))
             ELSE GrCumulativeMom(df, value_column, i + 1, cumulative_mom)

\* lines 161-193: the comparison of manual YoY with cumulative MoM
GrCompare(r, df, value_column) ==
    LET current_value == iloc(df, -1)[value_column]
        value_12m_ago == iloc(df, -13)[value_column]
    IN  IF value_12m_ago # Num(0)
        THEN LET manual_yoy ==
                     RMul(RDiv(RSub(current_value, value_12m_ago), value_12m_ago), Num(100))
                 cumulative_mom == GrCumulativeMom(df, value_column, -12, Num(1))
                 cumulative_yoy == RMul(RSub(cumulative_mom, Num(1)), Num(100))
                 difference == RAbs(RSub(manual_yoy, cumulative_yoy))
             IN  IF RGt(difference, Num(5))
                 THEN add_warning(r, "growth_rate_consistency",
                          "YoY growth differs from cumulative MoM",
                          [difference |-> difference, tolerance |-> Num(5)])
                 ELSE add_passed(r, "growth_rate_consistency",
                          "YoY and cumulative MoM are consistent")
        ELSE r

validate_growth_rate_consistency(analysis_results, data, value_column, date_column) ==
    LET r == ValidationResult__init__
    IN  IF date_column \notin data.columns   \* sort_values: KeyError
        THEN GrExcept(r)
        ELSE LET df == SortByDate(data.rows)
             IN  IF Len(df) < 13
                 THEN add_warning(r, "growth_rate_consistency",
                          "Insufficient data for growth rate consistency check (need at least 13 periods)",
                          <<>>)
                 ELSE IF value_column \notin data.columns   \* KeyError
                 THEN GrExcept(r)
                 ELSE GrCompare(r, df, value_column)

----------------------------------------------------------------------------
(* OutputValidator.comprehensive_validation, output_validator.py:583-631,  *)
(* called with excel_path and report_text left at their default None, so   *)
(* that lines 614-628 are passed over.  source_data is a DataFrame or None. *)

\* line 607: source_data if source_data is not None else pd.DataFrame()
CvSourceOrEmpty(source_data) ==
    IF source_data = None THEN EmptyDataFrame ELSE source_data

comprehensive_validation(analysis_results, source_data) ==
    LET r == ValidationResult__init__
    IN  IF "current_phase" \in DOMAIN analysis_results \/ "cycles" \in DOMAIN analysis_results
        THEN RecomputeIsValid(
                 Extend(r, validate_cycle_phase_consistency(analysis_results,
                               CvSourceOrEmpty(source_data), "liquidity_index", "date")))
        ELSE RecomputeIsValid(r)

----------------------------------------------------------------------------
(* MonetaryAggregatesAnalyzer, monetary_aggregates_analyzer.py.  The table *)
(* monetary_data is a DataFrame record whose rows hold a date and one      *)
(* field per aggregate column; analysis_results is what analyze_aggregates *)
(* returns: {'aggregates': {agg_type: agg_data}} or {'error': ...}.        *)

value_columns == <<"M0", "M1", "M2", "M3">>

Round1(x) ==
    IF ~IsNum(x)
    THEN x
    ELSE LET n == 10 * x.n
             q == n \div x.d
             twice == 2 * (n - q * x.d)
         IN  IF twice < x.d \/ (twice = x.d /\ q % 2 = 0) THEN R(q, 10) ELSE R(q + 1, 10)

\* round(x, 2) of a float: to the nearest multiple of 0.01, a tie to the even
\* one; nan stays nan
Round2(x) ==
    IF ~IsNum(x)
    THEN x
    ELSE LET n == 100 * x.n
             q == n \div x.d
             twice == 2 * (n - q * x.d)
         IN  IF twice < x.d \/ (twice = x.d /\ q % 2 = 0) THEN R(q, 100) ELSE R(q + 1, 100)

\* column.pct_change(periods) * 100 at the last row: nan when the column has
\* no row that many periods back.  The tables analysed hold numbers other
\* than zero, so that no change is infinite.
PctChangeLast(df, column, periods) ==
    IF Len(df) <= periods
    THEN NaN
    ELSE RMul(RSub(RDiv(iloc(df, -1)[column], iloc(df, -1 - periods)[column]), Num(1)),
              Num(100))

\* lines 84-107: the entry of one aggregate; of its keys the ones a
\* validate_* operation reads, and the values next to them
MaAggregateAnalysis(df, agg_type) ==
    [current_value |-> iloc(df, -1)[agg_type],
     current_yoy_growth |-> Round2(PctChangeLast(df, agg_type, 12)),
     current_mom_growth |-> Round2(PctChangeLast(df, agg_type, 1))]

\* lines 64-131, called with the default columns and no country or gdp column
analyze_aggregates(monetary_data) ==
    IF "date" \notin monetary_data.columns   \* KeyError
    THEN [error |-> "date"]
    ELSE LET df == SortByDate(monetary_data.rows)
             present == {agg_type \in monetary_data.columns :
                            \E i \in 1..Len(value_columns) : value_columns[i] = agg_type}
         IN  IF present # {} /\ df = <<>>   \* iloc[-1]: IndexError
             THEN [error |-> "single positional indexer is out-of-bounds"]
             ELSE [aggregates |->
                       [agg_type \in present |-> MaAggregateAnalysis(df, agg_type)],
                   data_points |-> Len(df)]

\* lines 343-344: the except clause of validate_growth_calculations
MaExcept(r) ==
    add_error(r, "growth_calculations_validation",
              "Error validating growth calculations", <<>>)

\* lines 297-314 and 319-336: the entry for one recomputed growth figure
MaGrowthEntry(r, agg_type, figure, checked, reported) ==
    IF checked.raised
    THEN Raised(checked.message)
    ELSE IF checked.ok
    THEN add_passed(r, agg_type \o "_" \o figure \o "_growth",
                    agg_type \o " growth validated")
    ELSE add_error(r, agg_type \o "_" \o figure \o "_growth",
                   agg_type \o " growth: " \o checked.message,
                   [reported |-> reported, aggregate |-> agg_type])

\* lines 291-314: the YoY check of one aggregate
MaYoyCheck(r, agg_type, agg_data, monetary_data, df) ==
    IF ~("current_yoy_growth" \in DOMAIN agg_data /\ "current_value" \in DOMAIN agg_data)
    THEN r
    ELSE IF agg_type \notin monetary_data.columns
    THEN r
    ELSE IF df = <<>>   \* iloc[-1]: IndexError
    THEN Raised("IndexError")
    ELSE IF Len(df) < 13
    THEN r
    ELSE LET current_value == iloc(df, -1)[agg_type]
             value_12m_ago == iloc(df, -13)[agg_type]
             reported_yoy == agg_data.current_yoy_growth
         IN  IF value_12m_ago # Num(0)
             THEN MaGrowthEntry(r, agg_type, "yoy",
                      validate_percent_change(OutputValidator__init__(DefaultTolerance),
                          current_value, value_12m_ago, reported_yoy, None),
                      reported_yoy)
             ELSE r

\* lines 316-336: the MoM check of one aggregate
MaMomCheck(r, agg_type, agg_data, monetary_data, df) ==
    IF "current_mom_growth" \notin DOMAIN agg_data
    THEN r
    ELSE IF agg_type \notin monetary_data.columns
    THEN r
    ELSE IF df = <<>>   \* iloc[-1]: IndexError
    THEN Raised("IndexError")
    ELSE IF Len(df) < 2
    THEN r
    ELSE LET current_value == iloc(df, -1)[agg_type]
             value_1m_ago == iloc(df, -2)[agg_type]
             reported_mom == agg_data.current_mom_growth
         IN  IF value_1m_ago # Num(0)
             THEN MaGrowthEntry(r, agg_type, "mom",
                      validate_percent_change(OutputValidator__init__(DefaultTolerance),
                          current_value, value_1m_ago, reported_mom, None),
                      reported_mom)
             ELSE r

\* lines 338-346: the velocity check of one aggregate
MaVelocityCheck(r, agg_type, agg_data) ==
    IF "current_velocity" \notin DOMAIN agg_data
    THEN r
    ELSE LET checked == validate_range(OutputValidator__init__(DefaultTolerance),
                                       agg_data.current_velocity, "velocity")
         IN  IF checked.ok
             THEN add_passed(r, agg_type \o "_velocity", agg_type \o " velocity validated")
             ELSE add_warning(r, agg_type \o "_velocity",
                              agg_type \o " velocity: " \o checked.message, <<>>)

\* lines 284-346: the three checks of one aggregate, in order
MaAggregateChecks(r, agg_type, agg_data, monetary_data, df) ==
    LET yoy == MaYoyCheck(r, agg_type, agg_data, monetary_data, df)
    IN  IF IsRaised(yoy)
        THEN yoy
        ELSE LET mom == MaMomCheck(yoy, agg_type, agg_data, monetary_data, df)
             IN  IF IsRaised(mom)
                 THEN mom
                 ELSE MaVelocityCheck(mom, agg_type, agg_data)

RECURSIVE MaAggregateLoop(_, _, _, _, _)
\* lines 284-346: for agg_type in value_columns; what raises inside the loop
\* ends it, and the except clause adds its entry to the result as it stands
MaAggregateLoop(r, aggregates, i, monetary_data, df) ==
    IF i > Len(value_columns)
    THEN r
    ELSE IF value_columns[i] \notin DOMAIN aggregates
    THEN MaAggregateLoop(r, aggregates, i + 1, monetary_data, df)
    ELSE LET checked == MaAggregateChecks(r, value_columns[i],
                            aggregates[value_columns[i]], monetary_data, df)
         IN  IF IsRaised(checked)
             THEN MaExcept(r)
             ELSE MaAggregateLoop(checked, aggregates, i + 1, monetary_data, df)

\* MonetaryAggregatesAnalyzer.validate_growth_calculations, lines 248-346
validate_growth_calculations(analysis_results, monetary_data) ==
    IF ~VALIDATOR_AVAILABLE
    THEN DummyValidationResult
    ELSE IF "date" \notin monetary_data.columns   \* df[date_column]: KeyError
    THEN MaExcept(ValidationResult__init__)
    ELSE IF "aggregates" \notin DOMAIN analysis_results
    THEN add_warning(ValidationResult__init__, "growth_calculations",
                     "No aggregates found in analysis results", <<>>)
    ELSE MaAggregateLoop(ValidationResult__init__, analysis_results.aggregates, 1,
                         monetary_data, SortByDate(monetary_data.rows))

\* lines 388-392: the current values of the aggregates analysed
MaHierarchyValues(aggregates) ==
    LET held_keys == {agg_type \in DOMAIN aggregates \cap {"M0", "M1", "M2", "M3"} :
                         "current_value" \in DOMAIN aggregates[agg_type]}
    IN  [agg_type \in held_keys |-> aggregates[agg_type].current_value]

\* lines 385-398: the hierarchy check, merged into r
MaHierarchyCheck(r, analysis_results) ==
    IF "aggregates" \notin DOMAIN analysis_results
    THEN r
    ELSE LET hierarchy_values == MaHierarchyValues(analysis_results.aggregates)
         IN  IF Cardinality(DOMAIN hierarchy_values) > 1
             THEN Extend(r, validate_monetary_aggregates_hierarchy(hierarchy_values))
             ELSE r

\* lines 408-409: result.warnings.extend(...) and result.passed.extend(...)
MaExtendWarningsPassed(r, o) ==
    [r EXCEPT !.warnings = @ \o o.warnings,
              !.passed = @ \o o.passed]

\* lines 400-409: the growth-rate consistency check on the first value column
MaConsistencyCheck(r, analysis_results, monetary_data) ==
    IF Len(monetary_data.rows) >= 13
    THEN MaExtendWarningsPassed(r,
             validate_growth_rate_consistency(analysis_results, monetary_data,
                                              value_columns[1], "date"))
    ELSE r

\* MonetaryAggregatesAnalyzer.validate_output, lines 349-416
MonetaryAggregates_validate_output(analysis_results, monetary_data) ==
    IF ~VALIDATOR_AVAILABLE
    THEN DummyValidationResult
    ELSE RecomputeIsValid(
             MaConsistencyCheck(
                 MaHierarchyCheck(
                     Extend(ValidationResult__init__,
                            validate_growth_calculations(analysis_results, monetary_data)),
                     analysis_results),
                 analysis_results, monetary_data))

----------------------------------------------------------------------------
(* LiquidityCycleAnalyzer, liquidity_cycle_analyzer.py.  The date of a row *)
(* is a day number, so that (a - b).days is a - b.  A cycle is a dict with *)
(* the keys start_date, end_date and length_months, or some of them.       *)

\* timedelta.days / 30.44
LcMonths(days) == R(days * 25, 761)

\* lines 177-186: the phase by position in the cycle and by trend
LcPhase(cycle_completion, recent_trend) ==
    IF RLt(cycle_completion, Num(25)) THEN "expansion"
    ELSE IF RLt(cycle_completion, Num(50))
    THEN IF RLt(recent_trend, Num(0)) THEN "peak" ELSE "expansion"
    ELSE IF RLt(cycle_completion, Num(75)) THEN "contraction"
    ELSE IF RGt(recent_trend, Num(0)) THEN "trough" ELSE "contraction"

\* LiquidityCycleAnalyzer._determine_current_phase, lines 150-201, for a df
\* with at least one row, sorted by date.  The forecasted_turning_point is
\* the day number of the current date plus the days to the turning point;
\* it is None whenever the cycle ended on or before the current date, which
\* is so for every cycle that _calculate_cycle_metrics makes
determine_current_phase(df, cycles, value_column) ==
    IF cycles = <<>>
    THEN [phase |-> "unknown", confidence |-> "low"]
    ELSE LET current_date == iloc(df, -1).date
             current_value == iloc(df, -1)[value_column]
             recent_cycle == cycles[Len(cycles)]
             months_elapsed == LcMonths(current_date - recent_cycle.start_date)
             cycle_length == recent_cycle.length_months
             cycle_completion ==
                 IF RGt(cycle_length, Num(0))
                 THEN RMul(RDiv(months_elapsed, cycle_length), Num(100))
                 ELSE Num(0)
             recent_trend ==
                 IF Len(df) >= 6
                 THEN RDiv(CpRecentTrendPct(df, value_column), Num(100))
                 ELSE Num(0)
             months_to_turning_point ==
                 IF RGt(cycle_length, months_elapsed)
                 THEN RSub(cycle_length, months_elapsed)
                 ELSE None
         IN  [phase |-> LcPhase(cycle_completion, recent_trend),
              cycle_completion_percent |-> Round2(cycle_completion),
              months_elapsed |-> Round2(months_elapsed),
              current_value |-> current_value,
              recent_trend |-> Round2(RMul(recent_trend, Num(100))),
              forecasted_turning_point |->
                  IF Truthy(months_to_turning_point)
                  THEN RAdd(Num(current_date), RMul(months_to_turning_point, R(761, 25)))
                  ELSE None,
              months_to_turning_point |->
                  IF Truthy(months_to_turning_point)
                  THEN Round2(months_to_turning_point)
                  ELSE None,
              confidence |-> IF RGt(cycle_completion, Num(20)) THEN "high" ELSE "medium"]

\* lines 296-297: the except clause of validate_cycle_identification
LcExcept(r) ==
    add_error(r, "cycle_identification_validation", "Error validating cycles", <<>>)

\* an exception raised inside the try block, and the result as it stood
LcRaised(exception, r) == [raised |-> exception, partial |-> r]

\* str(i) of a cycle number
LcStr(i) == IntStr(i)

\* lines 257-267: the length check of cycle i
LcLengthCheck(r, i, cycle) ==
    LET length == Get(cycle, "length_months", Num(0))
        checked == validate_cycle_length(OutputValidator__init__(DefaultTolerance), length)
    IN  IF ~checked.ok
        THEN add_error(r, "cycle_length_validation",
                       "Cycle " \o LcStr(i) \o ": " \o checked.message,
                       [cycle_number |-> i, length_months |-> length])
        ELSE add_passed(r, "cycle_" \o LcStr(i) \o "_length",
                        "Cycle " \o LcStr(i) \o " length validated")

\* lines 270-284: the check of the length against the dates of cycle i;
\* abs(manual_length - None) raises TypeError
LcDatesCheck(r, i, cycle) ==
    IF "start_date" \in DOMAIN cycle /\ "end_date" \in DOMAIN cycle
    THEN LET length == Get(cycle, "length_months", Num(0))
             manual_length == LcMonths(cycle.end_date - cycle.start_date)
             length_diff == RAbs(RSub(manual_length, length))
         IN  IF length.k = "none"
             THEN LcRaised("TypeError", r)
             ELSE IF RGt(length_diff, Num(1))
             THEN add_error(r, "cycle_date_consistency",
                      "Cycle " \o LcStr(i) \o ": Length mismatch between calculation and dates",
                      [calculated |-> length, from_dates |-> manual_length,
                       difference |-> length_diff])
             ELSE add_passed(r, "cycle_" \o LcStr(i) \o "_dates",
                             "Cycle " \o LcStr(i) \o " dates are consistent")
    ELSE r

RECURSIVE LcCycleLoop(_, _, _)
\* lines 256-284: for i, cycle in enumerate(cycles, 1)
LcCycleLoop(r, cycles, i) ==
    IF i > Len(cycles)
    THEN r
    ELSE LET checked == LcDatesCheck(LcLengthCheck(r, i, cycles[i]), i, cycles[i])
         IN  IF IsRaised(checked) THEN checked ELSE LcCycleLoop(checked, cycles, i + 1)

RECURSIVE LcSumLengths(_, _)
\* the sum np.mean divides, from cycle i on
LcSumLengths(cycles, i) ==
    IF i > Len(cycles) THEN Num(0)
    ELSE RAdd(cycles[i].length_months, LcSumLengths(cycles, i + 1))

\* lines 287-294: the check of the average length; c['length_months'] of a
\* cycle without the key raises KeyError, np.mean over a None TypeError
LcAverageCheck(r, cycles) ==
    IF cycles = <<>>
    THEN r
    ELSE IF \E i \in 1..Len(cycles) : "length_months" \notin DOMAIN cycles[i]
    THEN LcRaised("KeyError", r)
    ELSE IF \E i \in 1..Len(cycles) : cycles[i].length_months.k = "none"
    THEN LcRaised("TypeError", r)
    ELSE LET avg_length == RDiv(LcSumLengths(cycles, 1), Num(Len(cycles)))
             checked == validate_cycle_length(OutputValidator__init__(DefaultTolerance),
                                              avg_length)
         IN  IF ~checked.ok
             THEN add_warning(r, "average_cycle_length",
                              "Average cycle length: " \o checked.message, <<>>)
             ELSE add_passed(r, "average_cycle_length", "Average cycle length validated")

\* column.max() of the rows: nan values are skipped, nan when none is left
LcColumnMax(rows, column) ==
    LET nums == {rows[i][column] : i \in {j \in 1..Len(rows) : IsNum(rows[j][column])}}
    IN  IF nums = {} THEN NaN ELSE CHOOSE x \in nums : \A y \in nums : RLe(y, x)

\* column.min() of the rows
LcColumnMin(rows, column) ==
    LET nums == {rows[i][column] : i \in {j \in 1..Len(rows) : IsNum(rows[j][column])}}
    IN  IF nums = {} THEN NaN ELSE CHOOSE x \in nums : \A y \in nums : RLe(x, y)

RECURSIVE LcColumnSum(_, _, _)
\* the sum column.mean() divides: the numbers of the column from row i on
LcColumnSum(rows, column, i) ==
    IF i > Len(rows) THEN Num(0)
    ELSE IF IsNum(rows[i][column])
    THEN RAdd(rows[i][column], LcColumnSum(rows, column, i + 1))
    ELSE LcColumnSum(rows, column, i + 1)

\* column.mean() of the rows: nan values are skipped, nan when none is left
LcColumnMean(rows, column) ==
    LET count == Cardinality({i \in 1..Len(rows) : IsNum(rows[i][column])})
    IN  IF count = 0 THEN NaN ELSE RDiv(LcColumnSum(rows, column, 1), Num(count))

RECURSIVE LcStableSort(_)
\* sorted(..., key=lambda x: x['date']) and, for the tables of up to 16 rows
\* analysed here, df.sort_values(date_column).reset_index(drop=True): by
\* date, items of one date in the order they had
LcStableSort(items) ==
    IF items = <<>>
    THEN <<>>
    ELSE LET Least(i) == \A j \in 1..Len(items) : items[i].date <= items[j].date
             first == CHOOSE i \in 1..Len(items) :
                          Least(i) /\ \A j \in 1..(i - 1) : ~Least(j)
         IN  <<items[first]>> \o
             LcStableSort(SubSeq(items, 1, first - 1) \o SubSeq(items, first + 1, Len(items)))

\* line 61: df['yoy_growth'] = df[value_column].pct_change(periods=12) * 100
LcWithYoyGrowth(df, value_column) ==
    [i \in 1..Len(df) |->
        df[i] @@ [yoy_growth |->
                      IF i <= 12
                      THEN NaN
                      ELSE RMul(RSub(RDiv(df[i][value_column], df[i - 12][value_column]),
                                     Num(1)),
                                Num(100))]]

\* lines 92-93: row i is above the highest of the window rows before it and
\* above the highest of the window rows after it (rows counted from 1)
LcIsPeak(df, value_column, window, i) ==
    /\ RGt(df[i][value_column], LcColumnMax(SubSeq(df, i - window, i - 1), value_column))
    /\ RGt(df[i][value_column], LcColumnMax(SubSeq(df, i + 1, i + window), value_column))

\* lines 105-106: row i is below the lowest of the rows before and after it
LcIsTrough(df, value_column, window, i) ==
    /\ RLt(df[i][value_column], LcColumnMin(SubSeq(df, i - window, i - 1), value_column))
    /\ RLt(df[i][value_column], LcColumnMin(SubSeq(df, i + 1, i + window), value_column))

\* lines 94-98 and 107-111: the dict appended for row i
LcTurningPoint(df, value_column, i, type) ==
    [date |-> df[i].date, value |-> df[i][value_column], type |-> type]

\* LiquidityCycleAnalyzer._find_peaks, lines 88-99: range(window, len(df) -
\* window) is rows window + 1 to len(df) - window when counted from 1
find_peaks(df, value_column, window) ==
    LET Peak(i) == i > window /\ i <= Len(df) - window /\ LcIsPeak(df, value_column, window, i)
        found == SelectSeq([i \in 1..Len(df) |-> i], Peak)
    IN  [k \in 1..Len(found) |-> LcTurningPoint(df, value_column, found[k], "peak")]

\* LiquidityCycleAnalyzer._find_troughs, lines 101-112
find_troughs(df, value_column, window) ==
    LET Trough(i) ==
            i > window /\ i <= Len(df) - window /\ LcIsTrough(df, value_column, window, i)
        found == SelectSeq([i \in 1..Len(df) |-> i], Trough)
    IN  [k \in 1..Len(found) |-> LcTurningPoint(df, value_column, found[k], "trough")]

\* lines 128-129: df[df[date_column] == date].index[0], the first row of that
\* date, counted from 1
LcIndexOfDate(df, date) ==
    CHOOSE i \in 1..Len(df) : df[i].date = date /\ \A j \in 1..(i - 1) : df[j].date # date

\* lines 124-146: the cycle between turning points i and i + 1
LcCycle(df, turning_points, i, value_column) ==
    LET start == turning_points[i]
        end == turning_points[i + 1]
        start_idx == LcIndexOfDate(df, start.date)
        end_idx == LcIndexOfDate(df, end.date)
        cycle_data == SubSeq(df, start_idx, end_idx)
    IN  [cycle_number |-> i,
         start_date |-> start.date,
         end_date |-> end.date,
         start_value |-> start.value,
         end_value |-> end.value,
         length_months |-> LcMonths(end.date - start.date),
         peak_value |-> LcColumnMax(cycle_data, value_column),
         trough_value |-> LcColumnMin(cycle_data, value_column),
         amplitude |-> RSub(LcColumnMax(cycle_data, value_column),
                            LcColumnMin(cycle_data, value_column)),
         avg_growth_rate |-> LcColumnMean(cycle_data, "yoy_growth")]

\* LiquidityCycleAnalyzer._calculate_cycle_metrics, lines 114-148
calculate_cycle_metrics(df, turning_points, value_column) ==
    [i \in 1..(Len(turning_points) - 1) |-> LcCycle(df, turning_points, i, value_column)]

\* LiquidityCycleAnalyzer.identify_cycles, lines 38-86, called with the
\* default columns; a table without them raises KeyError, which the except
\* clause turns into the error dict
identify_cycles(liquidity_data) ==
    IF "date" \notin liquidity_data.columns
    THEN [error |-> "date"]
    ELSE IF "liquidity_index" \notin liquidity_data.columns
    THEN [error |-> "liquidity_index"]
    ELSE LET df == LcWithYoyGrowth(LcStableSort(liquidity_data.rows), "liquidity_index")
             peaks == find_peaks(df, "liquidity_index", 6)
             troughs == find_troughs(df, "liquidity_index", 6)
             turning_points == LcStableSort(peaks \o troughs)
             cycles == calculate_cycle_metrics(df, turning_points, "liquidity_index")
             current_phase == determine_current_phase(df, cycles, "liquidity_index")
         IN  [cycles |-> cycles,
              current_phase |-> current_phase,
              turning_points |-> turning_points,
              average_cycle_length |->
                  IF cycles # <<>>
                  THEN RDiv(LcSumLengths(cycles, 1), Num(Len(cycles)))
                  ELSE None,
              total_cycles_identified |-> Len(cycles)]

\* LiquidityCycleAnalyzer.validate_cycle_identification, lines 231-299
validate_cycle_identification(cycles, liquidity_data) ==
    IF ~VALIDATOR_AVAILABLE
    THEN DummyValidationResult
    ELSE LET looped == LcCycleLoop(ValidationResult__init__, cycles, 1)
             averaged == IF IsRaised(looped) THEN looped ELSE LcAverageCheck(looped, cycles)
         IN  IF IsRaised(averaged) THEN LcExcept(averaged.partial) ELSE averaged

\* LiquidityCycleAnalyzer.validate_output, lines 301-355; nothing in its
\* try block raises, as both operations it calls catch what they raise
LiquidityCycle_validate_output(analysis_results, liquidity_data) ==
    IF ~VALIDATOR_AVAILABLE
    THEN DummyValidationResult
    ELSE LET r == ValidationResult__init__
             cycled ==
                 IF "cycles" \in DOMAIN analysis_results
                 THEN Extend(r, validate_cycle_identification(analysis_results.cycles,
                                                              liquidity_data))
                 ELSE r
             phased ==
                 IF "current_phase" \in DOMAIN analysis_results
                 THEN Extend(cycled,
                             validate_cycle_phase_consistency(analysis_results,
                                 liquidity_data, "liquidity_index", "date"))
                 ELSE cycled
         IN  RecomputeIsValid(phased)

----------------------------------------------------------------------------
(* CentralBankAnalyzer.analyze_balance_sheet, central_bank_analyzer.py:36-104. *)
(* The table is a sequence of rows [central_bank, date, total_assets]; the  *)
(* analysis is {'by_bank': {bank: bank_data}}, held as the sequence of its  *)
(* (bank, bank_data) items in the order they were inserted.                 *)

\* the order in which df.sort_values([bank_column, date_column]) lists the banks
BankOrder == <<"BOE", "BOJ", "ECB", "Fed", "PBOC">>

\* bank_data[asset_column].diff().iloc[-1]
DiffLast(bank_df) ==
    IF Len(bank_df) < 2
    THEN NaN
    ELSE RSub(iloc(bank_df, -1).total_assets, iloc(bank_df, -2).total_assets)

\* lines 62-89: the entry of one bank; of its keys the ones a validate_*
\* operation reads, and the values next to them
CbBankAnalysis(bank_df) ==
    LET recent_change == DiffLast(bank_df)
        yoy_change == PctChangeLast(bank_df, "total_assets", 12)
    IN  [current_assets |-> iloc(bank_df, -1).total_assets,
         recent_monthly_change |-> recent_change,
         yoy_change_percent |-> Round2(yoy_change),
         policy_stance |-> determine_policy_stance(recent_change, yoy_change),
         data_points |-> Len(bank_df)]

\* lines 55-99, for a table that holds the three columns and at least one row
analyze_balance_sheet(balance_sheet_data) ==
    LET HasRows(bank) == BankFrame(balance_sheet_data, bank) # <<>>
        banks == SelectSeq(BankOrder, HasRows)
    IN  [by_bank |-> [i \in 1..Len(banks) |->
                         <<banks[i], CbBankAnalysis(BankFrame(balance_sheet_data, banks[i]))>>]]

----------------------------------------------------------------------------
(* ExcelModelGenerator.validate_excel_model, excel_model_generator.py:421-508 *)
(* A workbook is the sequence of its sheets in wb.sheetnames order; a sheet  *)
(* is [name, rows], rows[i][j] the cell in row i, column j.  A cell is       *)
(* [data_type |-> "f", formula], [data_type |-> "n", number] or              *)
(* [data_type |-> "s", text]; the empty cell is the "n" cell holding None.   *)

XlFormula(formula) == [data_type |-> "f", formula |-> formula]
XlNumber(number) == [data_type |-> "n", number |-> number]
XlText(text) == [data_type |-> "s", text |-> text]
XlEmpty == XlNumber(None)

\* line 462, '/0' in formula or 'DIV/0' in formula.upper(), on the formulas
\* the workbooks below hold
XlDividesByZero(formula) == formula \in {"=A1/0", "=B3/0"}

\* line 477, 'B' in formula and '/' in formula, on the same formulas
XlReadsColumnB(formula) == formula \in {"=B3/B2-1", "=B3/0"}

\* cell.coordinate
XlCoordinate(i, j) == <<"A", "B", "C", "D">>[j] \o IntStr(i)

\* lines 456-467: the formula cells of one sheet, row by row, that divide
\* by zero
RECURSIVE XlFormulaScan(_, _, _, _)
XlFormulaScan(r, sheet, i, j) ==
    IF i > Len(sheet.rows)
    THEN r
    ELSE IF j > Len(sheet.rows[i])
    THEN XlFormulaScan(r, sheet, i + 1, 1)
    ELSE LET cell == sheet.rows[i][j]
         IN  IF cell.data_type = "f" /\ XlDividesByZero(cell.formula)
             THEN XlFormulaScan(
                      add_error(r, "excel_formula_validation",
                                "Potential division by zero in " \o sheet.name \o "!"
                                    \o XlCoordinate(i, j) \o ": " \o cell.formula,
                                <<>>),
                      sheet, i, j + 1)
             ELSE XlFormulaScan(r, sheet, i, j + 1)

XlDivisionByZeroFound(sheet) ==
    \E i \in 1..Len(sheet.rows) : \E j \in 1..Len(sheet.rows[i]) :
        /\ sheet.rows[i][j].data_type = "f"
        /\ XlDividesByZero(sheet.rows[i][j].formula)

\* the truth value of cell.value
XlTruthy(cell) ==
    CASE cell.data_type = "n" -> Truthy(cell.number)
      [] cell.data_type = "s" -> cell.text # ""
      [] OTHER -> TRUE

\* lines 472-485: row row_idx has a month-on-month formula in column D and
\* the values of column B above and beside it are both truthy, so line 485
\* subtracts and divides them; that raises TypeError unless both are numbers
XlMomRowRaises(sheet, row_idx) ==
    LET mom_cell == sheet.rows[row_idx][4]
        prev_value == sheet.rows[row_idx - 1][2]
        curr_value == sheet.rows[row_idx][2]
    IN  /\ mom_cell.data_type = "f"
        /\ XlReadsColumnB(mom_cell.formula)
        /\ XlTruthy(prev_value) /\ XlTruthy(curr_value)
        /\ ~(prev_value.data_type = "n" /\ curr_value.data_type = "n")

\* lines 470-499.  mom_cell.value of a formula cell is the formula text, so
\* calculated_mom is None (line 490) and no entry is added here
XlMomRaises(sheet, liquidity_data) ==
    /\ sheet.name = "Liquidity Cycle"
    /\ liquidity_data # None
    /\ \E row_idx \in 3..Len(sheet.rows) : XlMomRowRaises(sheet, row_idx)

\* line 454, wb[sheet_name]: the first sheet of the workbook with that title
XlSheetNamed(wb, sheet_name) ==
    wb[CHOOSE k \in 1..Len(wb) :
           /\ wb[k].name = sheet_name
           /\ \A j \in 1..(k - 1) : wb[j].name # sheet_name]

\* lines 450-499: the titles of wb.sheetnames from the k-th on; 'Validation'
\* is skipped
RECURSIVE XlSheetLoop(_, _, _, _)
XlSheetLoop(r, wb, liquidity_data, k) ==
    IF k > Len(wb)
    THEN r
    ELSE IF wb[k].name = "Validation"
    THEN XlSheetLoop(r, wb, liquidity_data, k + 1)
    ELSE LET ws == XlSheetNamed(wb, wb[k].name)
             scanned == XlFormulaScan(r, ws, 1, 1)
         IN  IF XlMomRaises(ws, liquidity_data)
             THEN LcRaised("TypeError", scanned)
             ELSE XlSheetLoop(scanned, wb, liquidity_data, k + 1)

\* lines 421-508.  The module is importable only with openpyxl there (the
\* annotation `wb: Workbook` of line 123 is evaluated when the class is made),
\* so the operation is called only where OPENPYXL_AVAILABLE is true
validate_excel_model(wb, liquidity_data) ==
    IF ~VALIDATOR_AVAILABLE \/ ~OPENPYXL_AVAILABLE
    THEN None
    ELSE LET looped == XlSheetLoop(ValidationResult__init__, wb, liquidity_data, 1)
             found == \E k \in 1..Len(wb) :
                          /\ wb[k].name # "Validation"
                          /\ XlDivisionByZeroFound(XlSheetNamed(wb, wb[k].name))
         IN  IF IsRaised(looped)
             THEN RecomputeIsValid(add_error(looped.partial, "excel_model_validation",
                                             "Error validating Excel model", <<>>))
             ELSE RecomputeIsValid(
                      IF found THEN looped
                      ELSE add_passed(looped, "excel_formula_validation",
                                      "No division by zero errors found in formulas"))

----------------------------------------------------------------------------
(* URLValidator of the universal-learning-tutor, content_validator.py:47-181 *)

\* a Python str value; None stands for a missing expected_type or name
Str(s) == [k |-> "str", s |-> s]

\* str(v) inside an f-string
PyStr(v) == IF v = None THEN "None" ELSE v.s

\* line 62: cache_key = f"{url}_{expected_type}"
cache_key(url, expected_type) == url \o "_" \o PyStr(expected_type)

\* lines 68-69, urlparse(url) of the URLs called with below: scheme and
\* netloc are both there
UrlHasSchemeAndNetloc(url) == url \in {"https://youtube.com/w"}

\* expected_type.lower() of the types called with below
Lower(s) ==
    CASE s = "Course" -> "course"
      [] s = "None" -> "none"
      [] OTHER -> s

\* lines 96-102: the words looked for in url.lower() for an expected type
TypeWords(expected_lower) ==
    CASE expected_lower = "video" -> {"youtube.com", "vimeo.com", "video"}
      [] expected_lower = "course" -> {"coursera", "udemy", "edx", "udacity", "course"}
      [] expected_lower = "book" -> {"amazon", "book", "springer", "oreilly"}
      [] OTHER -> {}

\* x in url.lower(), for the URLs called with below
UrlContains(url, x) == url = "https://youtube.com/w" /\ x = "youtube.com"

\* lines 91-104: type_warnings is filled for a video, course or book whose
\* URL holds none of the words of its type
TypeMismatch(url, expected_type) ==
    /\ expected_type # None /\ expected_type.s # ""
    /\ Lower(expected_type.s) \in {"video", "course", "book"}
    /\ ~\E x \in TypeWords(Lower(expected_type.s)) : UrlContains(url, x)

\* content_validator.py:34-44, the dataclass of a check's result
URLValidationResult(check_type, item, status, confidence, details, suggestions, evidence, timestamp) ==
    [check_type |-> check_type, item |-> item, status |-> status,
     confidence |-> confidence, details |-> details, suggestions |-> suggestions,
     evidence |-> evidence, timestamp |-> timestamp]

\* resource_name or url
ItemOf(url, resource_name) ==
    IF resource_name # None /\ resource_name.s # "" THEN resource_name.s ELSE url

\* {response.status_code} inside an f-string
StatusStr(status_code) == IntStr(status_code)

\* lines 70-79: the result for a URL without scheme or netloc
UrlFormatResult(url, resource_name, timestamp) ==
    URLValidationResult("url_format", ItemOf(url, resource_name), "failed", Num(0),
        "Invalid URL format: " \o url,
        <<"Check URL formatting", "Ensure http:// or https:// prefix">>,
        <<>>, timestamp)

\* lines 84-163: the result made of what session.head did; outcome is the
\* response (kind "response", its status_code) or the exception raised (kind
\* "Timeout", or "ConnectionError" with its message)
UrlAccessResult(url, expected_type, resource_name, outcome, timestamp) ==
    LET item == ItemOf(url, resource_name)
    IN  CASE outcome.kind = "Timeout" ->
               URLValidationResult("url_accessibility", item, "warning", R(3, 10),
                   "URL timed out after 10 seconds",
                   <<"Resource may be slow or temporarily unavailable", "Try again later">>,
                   <<"Timeout">>, timestamp)
          [] outcome.kind = "ConnectionError" ->
               URLValidationResult("url_accessibility", item, "failed", Num(0),
                   "Error checking URL: " \o outcome.message,
                   <<"Verify URL format", "Check internet connection">>,
                   <<outcome.message>>, timestamp)
          [] outcome.kind = "response" /\ outcome.status_code = 200 ->
               IF TypeMismatch(url, expected_type)
               THEN URLValidationResult("url_accessibility", item, "warning", R(7, 10),
                        "URL accessible (Status: 200)",
                        <<"URL may not be a " \o expected_type.s \o " resource">>,
                        <<"Content-Type: text/html", "Final URL: " \o url>>, timestamp)
               ELSE URLValidationResult("url_accessibility", item, "passed", R(95, 100),
                        "URL accessible (Status: 200)", <<>>,
                        <<"Content-Type: text/html", "Final URL: " \o url>>, timestamp)
          [] outcome.kind = "response" /\ outcome.status_code \in {301, 302, 307, 308} ->
               URLValidationResult("url_accessibility", item, "warning", R(8, 10),
                   "URL redirects (Status: " \o StatusStr(outcome.status_code) \o ")",
                   <<"Consider using the final URL directly">>,
                   <<"Redirects to: " \o url>>, timestamp)
          [] OTHER ->
               URLValidationResult("url_accessibility", item, "failed", Num(0),
                   "URL not accessible (Status: " \o StatusStr(outcome.status_code) \o ")",
                   <<"Verify URL is correct", "Check if resource still exists",
                     "Try accessing in browser">>,
                   <<"HTTP Status: " \o StatusStr(outcome.status_code)>>, timestamp)

\* the state of one URLValidator and its surroundings: the cache, the
\* requests sent so far, the clock
UrlState(cache, sent, clock) == [checked_urls |-> cache, requests |-> sent, now |-> clock]

\* a cache that forgets a check that timed out
StoreUnlessTimedOut(cache, key, r) ==
    IF r.evidence = <<"Timeout">> THEN cache ELSE (key :> r) @@ cache

\* lines 80 and 165: self.checked_urls[cache_key] = result

Store(cache, key, r) == (key :> r) @@ cache

\* The code holds no lock, and CPython may switch threads between any two
\* bytecodes of validate_url.  A caller of the validator is outside a call
\* ("idle"), past a cache test that missed ("line66"), inside session.head
\* ("head", line 84, up to self.timeout seconds), holding the result it has
\* built and not yet stored ("store", before line 80 or line 165) or, in a
\* batch, inside time.sleep(0.5) ("sleep", line 179).  Wherever it is,
\* another caller's steps may run on the same validator.
Callers == {"A", "B"}

IdleCall == [pc |-> "idle"]

UrlCall(pc, op, url, expected_type, resource_name, resources, idx, results, built) ==
    [pc |-> pc, op |-> op, url |-> url, expected_type |-> expected_type,
     resource_name |-> resource_name, resources |-> resources, idx |-> idx,
     results |-> results, built |-> built]

\* the call frame at another line, or holding the result it has built
UrlCallAt(call, pc, built) ==
    UrlCall(pc, call.op, call.url, call.expected_type, call.resource_name,
            call.resources, call.idx, call.results, built)

SleepCall(resources, idx, results) ==
    [pc |-> "sleep", op |-> "batch_validate_urls", resources |-> resources,
     idx |-> idx, results |-> results]

\* validate_url, lines 62-64, in state s: the cache test.  hit: the call
\* returns the stored record.  The clock ticks once per call.  (A record
\* stored by another caller between the test of line 63 and the read of
\* line 64 is returned as by a test made after that store.)
validate_url_to_line64(s, url, expected_type) ==
    LET key == cache_key(url, expected_type)
        later == s.now + 1
    IN  IF key \in DOMAIN s.checked_urls
        THEN [state |-> UrlState(s.checked_urls, s.requests, later),
              hit |-> TRUE, ret |-> s.checked_urls[key]]
        ELSE [state |-> UrlState(s.checked_urls, s.requests, later),
              hit |-> FALSE, ret |-> None]

\* validate_url, lines 66-84, after a cache test that missed: the format
\* check.  A URL without scheme or netloc gets its result built, with the
\* time read then (lines 70-79); for any other the request is sent and the
\* call is inside session.head (waiting)
validate_url_to_head(s, url, expected_type, resource_name) ==
    IF ~UrlHasSchemeAndNetloc(url)
    THEN [state |-> s, waiting |-> FALSE,
          built |-> UrlFormatResult(url, resource_name, s.now)]
    ELSE [state |-> UrlState(s.checked_urls,
                             Append(s.requests,
                                    [url |-> url, expected_type |-> expected_type]),
                             s.now),
          waiting |-> TRUE, built |-> None]

\* validate_url, lines 86-163, session.head having answered outcome: the
\* result is built, with the time read then
validate_url_from_head(s, url, expected_type, resource_name, outcome) ==
    UrlAccessResult(url, expected_type, resource_name, outcome, s.now)

\* validate_url, lines 80-81 and 165-166: the result the call has built is
\* stored under its key, whatever the cache holds by then, and returned
validate_url_store(s, url, expected_type, built) ==
    [state |-> UrlState(Store(s.checked_urls, cache_key(url, expected_type), built),
                        s.requests, s.now),
     ret |-> built]

\* str(idx + 1) of a resource's place in the list
IdxStr(i) == IntStr(i)

\* batch_validate_urls, lines 171-181, from the i-th resource on until the
\* cache test of the next resource with a URL: on a hit the record is
\* appended and the caller sleeps (line 179), on a miss the caller is at line
\* 66 of validate_url; or the list ends and results is returned
RECURSIVE BatchLoop(_, _, _, _)
BatchLoop(s, resources, i, results) ==
    IF i > Len(resources)
    THEN [state |-> s, call |-> IdleCall, done |-> TRUE, ret |-> results]
    ELSE LET resource == resources[i]
             first == Get(resource, "url", None)
             url == IF first # None /\ first.s # "" THEN first
                    ELSE Get(resource, "link", None)
             resource_type == Get(resource, "type", None)
             resource_name == Get(resource, "name", Str("Resource " \o IdxStr(i)))
         IN  IF url # None /\ url.s # ""
             THEN LET tested == validate_url_to_line64(s, url.s, resource_type)
                  IN  IF tested.hit
                      THEN [state |-> tested.state,
                            call |-> SleepCall(resources, i + 1, Append(results, tested.ret)),
                            done |-> FALSE, ret |-> <<>>]
                      ELSE [state |-> tested.state,
                            call |-> UrlCall("line66", "batch_validate_urls", url.s,
                                             resource_type, resource_name, resources, i,
                                             results, None),
                            done |-> FALSE, ret |-> <<>>]
             ELSE BatchLoop(s, resources, i + 1, results)

----------------------------------------------------------------------------
(* The state machine: a caller holding one OutputValidator calls one        *)
(* operation at a time and reads what it returned, then drops the report.  *)

Idle == [op |-> "idle", args |-> <<>>, ret |-> <<>>]

Call(op, args, ret) == [op |-> op, args |-> args, ret |-> ret]

\* inputs of the numeric operations
SmallInts == {Num(i) : i \in -MaxInt..MaxInt}

PcValues == SmallInts \cup {Num(100), Num(110), NaN, None}

\* the percent change of the call's own inputs, where it is defined
PcOwnChange(value_current, value_previous) ==
    IF IsNum(value_current) /\ IsNum(value_previous) /\ value_previous.n # 0
    THEN {RMul(RDiv(RSub(value_current, value_previous), value_previous), Num(100))}
    ELSE {}

PcReported(value_current, value_previous) ==
    SmallInts \cup {Num(10), R(2001, 200), R(21, 2), Num(11), Num(15), NaN, None}
        \cup PcOwnChange(value_current, value_previous)

\* None: the caller leaves the tolerance argument out
PcTolerances == {None, Num(0), R(1, 1000), R(1, 100), Num(1), Num(5)}

RangeValues ==
    SmallInts \cup {R(1, 2), R(3, 2), R(-3, 2), Num(15), Num(16), Num(49), Num(50),
                    Num(75), Num(76), Num(-50), Num(-51), Num(100), Num(101),
                    Num(-100), Num(-101), Num(500), Num(501), NaN, None}

MetricTypes == DOMAIN expected_ranges \cup {"liquidity_index"}

\* a caller that holds no table and no report yet; URLValidator.__init__
\* (content_validator.py:50-56) starts with an empty checked_urls
InitHeld ==
    /\ inputs = [analysis_results |-> <<>>, data |-> EmptyDataFrame]
    /\ objects = <<>>
    /\ checked_urls = <<>>
    /\ requests = <<>>
    /\ now = 0
    /\ calls = [c \in Callers |-> IdleCall]
    /\ VALIDATOR_AVAILABLE = TRUE
    /\ OPENPYXL_AVAILABLE = TRUE

Init ==
    /\ result = ValidationResult__init__
    /\ validator = OutputValidator__init__(DefaultTolerance)
    /\ last = Idle
    /\ InitHeld

CallValidatePercentChange ==
    /\ last.op = "idle"
    /\ \E value_current \in PcValues, value_previous \in PcValues, tolerance \in PcTolerances :
         \E reported_change \in PcReported(value_current, value_previous) :
            /\ last' = Call("validate_percent_change",
                         [value_current |-> value_current, value_previous |-> value_previous,
                          reported_change |-> reported_change, tolerance |-> tolerance],
                         validate_percent_change(validator, value_current, value_previous,
                                                 reported_change, tolerance))
    /\ UNCHANGED <<result, validator, held>>

CallValidateRange ==
    /\ last.op = "idle"
    /\ \E value \in RangeValues, metric_type \in MetricTypes :
         last' = Call("validate_range", [value |-> value, metric_type |-> metric_type],
                      validate_range(validator, value, metric_type))
    /\ UNCHANGED <<result, validator, held>>

CallValidateCycleLength ==
    /\ last.op = "idle"
    /\ \E value \in RangeValues :
         last' = Call("validate_cycle_length", [value |-> value],
                      validate_cycle_length(validator, value))
    /\ UNCHANGED <<result, validator, held>>

CallValidateCorrelation ==
    /\ last.op = "idle"
    /\ \E value \in RangeValues :
         last' = Call("validate_correlation", [value |-> value],
                      validate_correlation(validator, value))
    /\ UNCHANGED <<result, validator, held>>

\* the dicts a caller passes as aggregates: every subset of the hierarchy's
\* keys, each with a value that is positive, zero, negative, NaN or None
HierInputValues == {Num(i) : i \in -1..MaxInt} \cup {Num(8), Num(10), Num(20), NaN, None}

HierKeys == {hierarchy[i] : i \in 1..Len(hierarchy)}

HierInputs == UNION {[keys -> HierInputValues] : keys \in SUBSET HierKeys}

CallValidateHierarchy ==
    /\ last.op = "idle"
    /\ \E aggregates \in HierInputs :
         last' = Call("validate_monetary_aggregates_hierarchy", [aggregates |-> aggregates],
                      validate_monetary_aggregates_hierarchy(aggregates))
    /\ UNCHANGED <<result, validator, held>>

PolicyStances == {"expansive", "contractive", "neutral", "mixed"}

CallValidatePolicyStance ==
    /\ last.op = "idle"
    /\ \E policy_stance \in PolicyStances,
          balance_sheet_change \in SmallInts \cup {NaN, None},
          yoy_change \in SmallInts \cup {Num(-10), Num(-5), Num(5), Num(10), NaN, None} :
         last' = Call("validate_policy_stance_consistency",
                      [policy_stance |-> policy_stance,
                       balance_sheet_change |-> balance_sheet_change,
                       yoy_change |-> yoy_change],
                      validate_policy_stance_consistency(policy_stance,
                          balance_sheet_change, yoy_change))
    /\ UNCHANGED <<result, validator, held>>

\* the caller is done with what the call returned
Discard ==
    /\ last.op # "idle"
    /\ last' = Idle
    /\ UNCHANGED <<result, validator, held>>

\* a dict with the key, or without it
Optional(key, vals) == {<<>>} \cup {key :> v : v \in vals}

\* the dicts identify_cycles returns (liquidity_cycle_analyzer.py:76-86, 158-201)
\* as far as the validator reads them
PhaseNames == {"expansion", "peak", "contraction", "trough", "unknown"}

PhaseInfos ==
    {phase @@ completion @@ elapsed @@ turning :
        phase \in Optional("phase", PhaseNames),
        completion \in Optional("cycle_completion_percent", {Num(50), Num(55), Num(56)}),
        elapsed \in Optional("months_elapsed", {Num(6), None}),
        turning \in Optional("months_to_turning_point", {Num(6), Num(0), None})}

CycleAnalyses ==
    {[error |-> "no data"], [cycles |-> <<>>]}
        \cup {[current_phase |-> phase_info] : phase_info \in PhaseInfos}

\* n monthly rows, newest first, whose values are 100 but for the newest (cur),
\* the one 12 rows before it (ago) and the one 6 rows before it (mid)
SeriesRows(shape) ==
    [i \in 1..shape.n |->
        LET date == shape.n + 1 - i
        IN  [date |-> date,
             liquidity_index |-> IF date = shape.n THEN shape.cur
                                 ELSE IF date = shape.n - 12 THEN shape.ago
                                 ELSE IF date = shape.n - 6 THEN shape.mid
                                 ELSE Num(100)]]

SeriesFrame(shape) ==
    [columns |-> {"date", "liquidity_index"}, rows |-> SeriesRows(shape)]

Shape(n, ago, mid, cur) == [n |-> n, ago |-> ago, mid |-> mid, cur |-> cur]

LiquidityShapes ==
    {Shape(0, Num(100), Num(100), Num(100)), Shape(5, Num(100), Num(100), Num(50))}
        \cup {Shape(6, Num(100), Num(100), cur) :
                  cur \in {Num(50), Num(89), Num(95), Num(100), Num(105), Num(111), Num(150)}}
        \cup {Shape(7, Num(100), Num(100), cur) : cur \in {Num(89), Num(111)}}

LiquidityFrames == {EmptyDataFrame} \cup {SeriesFrame(shape) : shape \in LiquidityShapes}

CallValidateCyclePhaseConsistency ==
    /\ last.op = "idle"
    /\ \E cycle_analysis \in CycleAnalyses, liquidity_data \in LiquidityFrames :
         last' = Call("validate_cycle_phase_consistency",
                      [cycle_analysis |-> cycle_analysis, liquidity_data |-> liquidity_data],
                      validate_cycle_phase_consistency(cycle_analysis, liquidity_data,
                          "liquidity_index", "date"))
    /\ UNCHANGED <<result, validator, held>>

GrowthShapes ==
    {Shape(0, Num(100), Num(100), Num(100)), Shape(12, Num(100), Num(100), Num(110))}
        \cup {Shape(n, ago, mid, cur) :
                  n \in {13, 14}, ago \in {Num(100), Num(0), NaN},
                  mid \in {Num(100), Num(50), Num(0)}, cur \in {Num(100), Num(110), Num(0)}}

GrowthFrames == {EmptyDataFrame} \cup {SeriesFrame(shape) : shape \in GrowthShapes}

CallValidateGrowthRateConsistency ==
    /\ last.op = "idle"
    /\ \E data \in GrowthFrames :
         last' = Call("validate_growth_rate_consistency",
                      [analysis_results |-> <<>>, data |-> data],
                      validate_growth_rate_consistency(<<>>, data, "liquidity_index", "date"))
    /\ UNCHANGED <<result, validator, held>>

CallComprehensiveValidation ==
    /\ last.op = "idle"
    /\ \E analysis_results \in CycleAnalyses, source_data \in LiquidityFrames \cup {None} :
         last' = Call("comprehensive_validation",
                      [analysis_results |-> analysis_results, source_data |-> source_data],
                      comprehensive_validation(analysis_results, source_data))
    /\ UNCHANGED <<result, validator, held>>

Next ==
    \/ CallValidatePercentChange
    \/ CallValidateRange
    \/ CallValidateCycleLength
    \/ CallValidateCorrelation
    \/ CallValidateHierarchy
    \/ CallValidatePolicyStance
    \/ CallValidateCyclePhaseConsistency
    \/ CallValidateGrowthRateConsistency
    \/ CallComprehensiveValidation
    \/ Discard

Spec == Init /\ [][Next]_vars

----------------------------------------------------------------------------
(* A caller filling one ValidationResult through its methods *)

CheckNames ==
    {"growth_rate_consistency", "cycle_phase_consistency", "policy_stance_consistency"}

Entries(r) == Len(r.errors) + Len(r.warnings) + Len(r.passed)

AddError ==
    /\ Entries(result) < MaxEntries
    /\ \E check_name \in CheckNames :
         result' = add_error(result, check_name, "error", <<>>)
    /\ UNCHANGED <<validator, last, held>>

AddWarning ==
    /\ Entries(result) < MaxEntries
    /\ \E check_name \in CheckNames :
         result' = add_warning(result, check_name, "warning", <<>>)
    /\ UNCHANGED <<validator, last, held>>

AddPassed ==
    /\ Entries(result) < MaxEntries
    /\ \E check_name \in CheckNames :
         result' = add_passed(result, check_name, "Check passed")
    /\ UNCHANGED <<validator, last, held>>

\* result = ValidationResult(): the caller starts a new report
NewResult ==
    /\ result # ValidationResult__init__
    /\ result' = ValidationResult__init__
    /\ UNCHANGED <<validator, last, held>>

NextResult == AddError \/ AddWarning \/ AddPassed \/ NewResult

SpecResult == Init /\ [][NextResult]_vars

----------------------------------------------------------------------------
(* A caller of CentralBankAnalyzer's validation operations *)

\* the rows of one bank, newest first: n monthly rows whose last value is
\* cur and whose value 12 rows before the last is ago
BankRows(bank, shape) ==
    [i \in 1..shape.n |->
        LET date == shape.n + 1 - i
        IN  [central_bank |-> bank, date |-> date,
             total_assets |-> IF date = shape.n THEN shape.cur
                              ELSE IF date = shape.n - 12 THEN shape.ago
                              ELSE Num(100)]]

FedShapes ==
    {[n |-> 12, ago |-> Num(100), cur |-> Num(90)],
     [n |-> 14, ago |-> Num(100), cur |-> Num(90)],
     [n |-> 13, ago |-> Num(0), cur |-> Num(90)]}

EcbShapes ==
    {[n |-> 12, ago |-> Num(100), cur |-> Num(90)],
     [n |-> 13, ago |-> Num(100), cur |-> Num(110)]}

FedBankData ==
    {yoy @@ stance @@ monthly :
        yoy \in Optional("yoy_change_percent", {Num(-10), Num(10), None}),
        stance \in Optional("policy_stance", {"expansive", "contractive", "neutral"}),
        monthly \in Optional("recent_monthly_change", {Num(-1), Num(1), None})}

EcbBankData ==
    {yoy @@ stance @@ monthly :
        yoy \in Optional("yoy_change_percent", {Num(10)}),
        stance \in Optional("policy_stance", {"expansive", "neutral"}),
        monthly \in Optional("recent_monthly_change", {Num(-1)})}

\* (analysis_results, balance_sheet_data) pairs: no by_bank key, one bank, two banks
CentralBankInputs ==
    {<<[total_banks |-> 0], <<>>>>}
    \cup {<<[by_bank |-> <<<<"Fed", fed>>>>], BankRows("Fed", fs)>> :
             fed \in FedBankData, fs \in FedShapes}
    \cup {<<[by_bank |-> <<<<"Fed", fed>>, <<"ECB", ecb>>>>],
            BankRows("ECB", es) \o BankRows("Fed", fs)>> :
             fed \in FedBankData, fs \in FedShapes, ecb \in EcbBankData, es \in EcbShapes}

CallValidateBalanceSheetCalculations ==
    /\ last.op = "idle"
    /\ \E input \in CentralBankInputs :
         last' = Call("validate_balance_sheet_calculations",
                      [analysis_results |-> input[1], balance_sheet_data |-> input[2]],
                      validate_balance_sheet_calculations(input[1], input[2]))
    /\ UNCHANGED <<result, validator, held>>

CallCentralBankValidateOutput ==
    /\ last.op = "idle"
    /\ \E input \in CentralBankInputs :
         last' = Call("CentralBankAnalyzer.validate_output",
                      [analysis_results |-> input[1], balance_sheet_data |-> input[2]],
                      CentralBank_validate_output(input[1], input[2]))
    /\ UNCHANGED <<result, validator, held>>

StanceChanges == SmallInts \cup {R(1, 200), R(-1, 200), NaN, None}

StanceYoyChanges ==
    SmallInts \cup {Num(-10), Num(-5), Num(5), Num(10), R(1, 2), R(-1, 2), NaN, None}

CallDeterminePolicyStance ==
    /\ last.op = "idle"
    /\ \E recent_change \in StanceChanges, yoy_change \in StanceYoyChanges :
         last' = Call("_determine_policy_stance",
                      [recent_change |-> recent_change, yoy_change |-> yoy_change],
                      determine_policy_stance(recent_change, yoy_change))
    /\ UNCHANGED <<result, validator, held>>

\* validate_balance_sheet_calculations' use of the stance (lines 333-346) on
\* what _determine_policy_stance has just returned for the same two changes
CallValidateDeterminedStance ==
    /\ last.op = "_determine_policy_stance"
    /\ ~DeterminePolicyStanceRaises(last.args.recent_change, last.args.yoy_change)
    /\ last' = Call("validate_policy_stance_consistency",
                    [policy_stance |-> last.ret,
                     balance_sheet_change |-> last.args.recent_change,
                     yoy_change |-> last.args.yoy_change],
                    validate_policy_stance_consistency(last.ret,
                        last.args.recent_change, last.args.yoy_change))
    /\ UNCHANGED <<result, validator, held>>

NextAnalyzer ==
    \/ CallDeterminePolicyStance
    \/ CallValidateDeterminedStance
    \/ CallValidateBalanceSheetCalculations
    \/ CallCentralBankValidateOutput
    \/ CallValidateHierarchy
    \/ CallValidatePolicyStance
    \/ CallValidateGrowthRateConsistency
    \/ Discard

SpecAnalyzer == Init /\ [][NextAnalyzer]_vars

----------------------------------------------------------------------------
(* Callers of the analyzers: the modules are imported with or without      *)
(* output_validator and openpyxl at hand, an analysis is validated as it   *)
(* was returned or as a caller put it together.                            *)

\* the value every aggregate column is a multiple of: 300 but for the newest
\* row (cur), the row before it (prev) and the row 12 before the newest (ago)
MaBase(shape, date) ==
    IF date = shape.n THEN shape.cur
    ELSE IF date = shape.n - 1 THEN shape.prev
    ELSE IF date = shape.n - 12 THEN shape.ago
    ELSE Num(300)

MaScale == [M0 |-> Num(1), M1 |-> Num(2), M2 |-> Num(3), M3 |-> Num(4)]

\* n monthly rows, newest first, with the aggregate columns given
MaFrame(columns, shape) ==
    [columns |-> columns,
     rows |-> [i \in 1..shape.n |->
                  [c \in columns |->
                      IF c = "date"
                      THEN shape.n + 1 - i
                      ELSE RMul(MaScale[c], MaBase(shape, shape.n + 1 - i))]]]

MaShape(n, ago, prev, cur) == [n |-> n, ago |-> ago, prev |-> prev, cur |-> cur]

MaShapes ==
    {MaShape(0, Num(300), Num(300), Num(300)), MaShape(1, Num(300), Num(300), Num(301)),
     MaShape(12, Num(300), Num(300), Num(301))}
        \cup {MaShape(n, ago, prev, cur) :
                  n \in {13, 14}, ago \in {Num(300), Num(7)},
                  prev \in {Num(300), Num(-8)}, cur \in {Num(301), Num(330), Num(1)}}

MaColumnSets ==
    {{"date", "M0", "M1", "M2", "M3"}, {"date", "M1", "M2"}, {"date", "M0", "M2"},
     {"M0", "M2"}}

MaFrames ==
    {EmptyDataFrame} \cup {MaFrame(columns, shape) : columns \in MaColumnSets, shape \in MaShapes}

\* the agg_data a caller may hand over for M2, and for the aggregates next to it
MaM2Data ==
    {yoy @@ mom @@ val @@ vel :
        yoy \in Optional("current_yoy_growth", {Num(10), R(1001, 100)}),
        mom \in Optional("current_mom_growth", {Num(10), None}),
        val \in Optional("current_value", {Num(990), Num(5)}),
        vel \in Optional("current_velocity", {Num(2), Num(20)})}

MaHandMadeAnalyses ==
    {[error |-> "no data"], [aggregates |-> <<>>]}
        \cup {[aggregates |-> ("M2" :> m2)] : m2 \in MaM2Data}
        \cup {[aggregates |-> ("M0" :> [current_value |-> m0] @@ "M2" :> m2)] :
                  m0 \in {Num(10), Num(1000)},
                  m2 \in {d \in MaM2Data : "current_velocity" \notin DOMAIN d}}
        \cup {[aggregates |-> ("M1" :> [current_value |-> Num(1000)] @@ "M2" :> m2)] :
                  m2 \in {d \in MaM2Data : DOMAIN d = {"current_value"}}}

MaHandMadeFrames ==
    {EmptyDataFrame}
        \cup {MaFrame(columns, shape) :
                  columns \in {{"date", "M1", "M2"}, {"date", "M0", "M2"}, {"M0", "M2"}},
                  shape \in {MaShape(0, Num(300), Num(300), Num(300)),
                              MaShape(12, Num(300), Num(300), Num(330)),
                              MaShape(13, Num(300), Num(300), Num(330))}}

InitModules ==
    /\ result = ValidationResult__init__
    /\ validator = OutputValidator__init__(DefaultTolerance)
    /\ last = Idle
    /\ inputs = [analysis_results |-> <<>>, data |-> EmptyDataFrame]
    /\ objects = <<>>
    /\ checked_urls = <<>>
    /\ requests = <<>>
    /\ now = 0
    /\ calls = [c \in Callers |-> IdleCall]
    /\ VALIDATOR_AVAILABLE \in BOOLEAN
    /\ OPENPYXL_AVAILABLE \in BOOLEAN

CallAnalyzeAggregates ==
    /\ last.op = "idle"
    /\ \E monetary_data \in MaFrames :
         last' = Call("analyze_aggregates", [monetary_data |-> monetary_data],
                      analyze_aggregates(monetary_data))
    /\ UNCHANGED <<result, validator, held>>

\* the analysis just returned is validated against the table it was made from
CallValidateAnalyzedGrowth ==
    /\ last.op = "analyze_aggregates"
    /\ last' = Call("validate_growth_calculations",
                    [analysis_results |-> last.ret, monetary_data |-> last.args.monetary_data],
                    validate_growth_calculations(last.ret, last.args.monetary_data))
    /\ UNCHANGED <<result, validator, held>>

CallValidateAnalyzedAggregates ==
    /\ last.op = "analyze_aggregates"
    /\ last' = Call("MonetaryAggregatesAnalyzer.validate_output",
                    [analysis_results |-> last.ret, monetary_data |-> last.args.monetary_data],
                    MonetaryAggregates_validate_output(last.ret, last.args.monetary_data))
    /\ UNCHANGED <<result, validator, held>>

\* n monthly rows of one bank, newest first: 300 but for the newest (cur),
\* the one before it (prev) and the one 12 before the newest (ago)
CbOwnRows(bank, shape) ==
    [i \in 1..shape.n |->
        [central_bank |-> bank, date |-> shape.n + 1 - i,
         total_assets |-> MaBase(shape, shape.n + 1 - i)]]

CbOwnShapes ==
    {MaShape(1, Num(300), Num(300), Num(301)), MaShape(12, Num(300), Num(300), Num(301))}
        \cup {MaShape(n, ago, prev, cur) :
                  n \in {13, 14}, ago \in {Num(300), Num(7)},
                  prev \in {Num(300), Num(400)}, cur \in {Num(301), Num(330), Num(1)}}

CbOwnTables ==
    {CbOwnRows("Fed", fed) : fed \in CbOwnShapes}
        \cup {CbOwnRows("Fed", fed) \o CbOwnRows("ECB", ecb) :
                  fed \in CbOwnShapes,
                  ecb \in {MaShape(12, Num(300), Num(300), Num(301)),
                            MaShape(13, Num(7), Num(300), Num(1))}}

CallAnalyzeBalanceSheet ==
    /\ last.op = "idle"
    /\ \E balance_sheet_data \in CbOwnTables :
         last' = Call("analyze_balance_sheet", [balance_sheet_data |-> balance_sheet_data],
                      analyze_balance_sheet(balance_sheet_data))
    /\ UNCHANGED <<result, validator, held>>

\* the analysis just returned is validated against the table it was made from
CallValidateAnalyzedBalanceSheet ==
    /\ last.op = "analyze_balance_sheet"
    /\ last' = Call("validate_balance_sheet_calculations",
                    [analysis_results |-> last.ret,
                     balance_sheet_data |-> last.args.balance_sheet_data],
                    validate_balance_sheet_calculations(last.ret,
                        last.args.balance_sheet_data))
    /\ UNCHANGED <<result, validator, held>>

\* a series of n rows in the order of their dates, 100 but for rows 7 and 8
\* and the newest row; with shared set, rows 7 and 8 are of one date (two
\* observations of one day)
LcSeriesRows(n, seventh, eighth, cur, shared) ==
    [i \in 1..n |->
        [date |-> IF shared /\ i = 8 THEN 7 ELSE i,
         liquidity_index |-> IF i = n THEN cur
                             ELSE IF i = 7 THEN seventh
                             ELSE IF i = 8 THEN eighth
                             ELSE Num(100)]]

\* the tables identify_cycles is handed: none, series too short for a
\* turning point (under 13 rows) and series of 13 to 15 rows that are flat
\* or rise and fall at rows 7 and 8, ending 3% down, level or 3% up
LcSeries ==
    {EmptyDataFrame}
        \cup {[columns |-> {"date", "liquidity_index"},
               rows |-> LcSeriesRows(n, turn[1], turn[2], cur, shared)] :
                 n \in {5, 12, 13, 14, 15},
                 turn \in {<<Num(100), Num(100)>>, <<Num(120), Num(100)>>,
                           <<Num(120), Num(80)>>, <<Num(80), Num(120)>>},
                 cur \in {Num(85), Num(100), Num(115)},
                 shared \in BOOLEAN}

CallIdentifyCycles ==
    /\ last.op = "idle"
    /\ \E liquidity_data \in LcSeries :
         last' = Call("identify_cycles", [liquidity_data |-> liquidity_data],
                      identify_cycles(liquidity_data))
    /\ UNCHANGED <<result, validator, held>>

\* what identify_cycles returned is validated against the series it was made
\* from, by an OutputValidator, which exists only where its module is
\* importable
CallValidateIdentifiedPhase ==
    /\ VALIDATOR_AVAILABLE
    /\ last.op = "identify_cycles"
    /\ "error" \notin DOMAIN last.ret
    /\ last' = Call("validate_cycle_phase_consistency",
                    [cycle_analysis |-> last.ret,
                     liquidity_data |-> last.args.liquidity_data],
                    validate_cycle_phase_consistency(last.ret, last.args.liquidity_data,
                                                     "liquidity_index", "date"))
    /\ UNCHANGED <<result, validator, held>>

\* the same through the analyzer's own validate_output
CallValidateIdentifiedCycles ==
    /\ last.op = "identify_cycles"
    /\ "error" \notin DOMAIN last.ret
    /\ last' = Call("LiquidityCycleAnalyzer.validate_output",
                    [analysis_results |-> last.ret,
                     liquidity_data |-> last.args.liquidity_data],
                    LiquidityCycle_validate_output(last.ret, last.args.liquidity_data))
    /\ UNCHANGED <<result, validator, held>>

\* cycles a caller hands to the validation: 1826 days are 59.99 months
LcCycleDicts ==
    {[length_months |-> Num(60)], [length_months |-> Num(80)], [length_months |-> NaN],
     [start_date |-> 1, end_date |-> 1827],
     [start_date |-> 1, end_date |-> 1827, length_months |-> Num(60)],
     [start_date |-> 1, end_date |-> 1827, length_months |-> Num(62)],
     [start_date |-> 1, end_date |-> 1827, length_months |-> None]}

LcCycleLists ==
    {<<>>} \cup {<<c>> : c \in LcCycleDicts}
           \cup {<<c1, c2>> : c1 \in LcCycleDicts, c2 \in LcCycleDicts}

CallValidateCycleIdentification ==
    /\ last.op = "idle"
    /\ \E cycles \in LcCycleLists :
         last' = Call("validate_cycle_identification",
                      [cycles |-> cycles, liquidity_data |-> EmptyDataFrame],
                      validate_cycle_identification(cycles, EmptyDataFrame))
    /\ UNCHANGED <<result, validator, held>>

LcAnalyses ==
    {[error |-> "no data"]}
        \cup {cycles @@ phase :
                  cycles \in Optional("cycles", {<<>>} \cup {<<c>> : c \in LcCycleDicts}),
                  phase \in Optional("current_phase",
                                     {[phase |-> "unknown", confidence |-> "low"],
                                      [phase |-> "expansion"], [phase |-> "contraction"]})}

CallLiquidityCycleValidateOutput ==
    /\ last.op = "idle"
    /\ \E analysis_results \in LcAnalyses,
          liquidity_data \in {EmptyDataFrame} \cup
                             {SeriesFrame(Shape(6, Num(100), Num(100), cur)) :
                                 cur \in {Num(50), Num(111)}} :
         last' = Call("LiquidityCycleAnalyzer.validate_output",
                      [analysis_results |-> analysis_results,
                       liquidity_data |-> liquidity_data],
                      LiquidityCycle_validate_output(analysis_results, liquidity_data))
    /\ UNCHANGED <<result, validator, held>>

CallValidateGrowthCalculations ==
    /\ last.op = "idle"
    /\ \E analysis_results \in MaHandMadeAnalyses, monetary_data \in MaHandMadeFrames :
         last' = Call("validate_growth_calculations",
                      [analysis_results |-> analysis_results, monetary_data |-> monetary_data],
                      validate_growth_calculations(analysis_results, monetary_data))
    /\ UNCHANGED <<result, validator, held>>

CallMonetaryAggregatesValidateOutput ==
    /\ last.op = "idle"
    /\ \E analysis_results \in MaHandMadeAnalyses, monetary_data \in MaHandMadeFrames :
         last' = Call("MonetaryAggregatesAnalyzer.validate_output",
                      [analysis_results |-> analysis_results, monetary_data |-> monetary_data],
                      MonetaryAggregates_validate_output(analysis_results, monetary_data))
    /\ UNCHANGED <<result, validator, held>>

\* rows of a sheet, four columns wide
XlTitleRow == <<XlText("Global Liquidity"), XlEmpty, XlEmpty, XlEmpty>>
XlHeaderRow == <<XlText("Date"), XlText("Liquidity Index"), XlText("YoY"), XlText("MoM")>>
XlDataRow(number, formula) ==
    <<XlText("2024-01-31"), XlNumber(number), XlEmpty, XlFormula(formula)>>

XlSheets ==
    { [name |-> "Dashboard", rows |-> <<XlTitleRow>>],
      [name |-> "Dashboard", rows |-> <<XlTitleRow, XlDataRow(Num(1), "=A1/0")>>],
      [name |-> "Validation", rows |-> <<XlTitleRow, XlDataRow(Num(1), "=A1/0")>>],
      [name |-> "Liquidity Cycle",
       rows |-> <<XlTitleRow, XlHeaderRow, XlDataRow(Num(100), "=B3/B2-1")>>],
      [name |-> "Liquidity Cycle",
       rows |-> <<XlTitleRow, XlDataRow(Num(100), "=SUM(B1:B2)"),
                  XlDataRow(Num(110), "=B3/B2-1")>>],
      [name |-> "Liquidity Cycle",
       rows |-> <<XlTitleRow, XlDataRow(Num(0), "=SUM(B1:B2)"),
                  XlDataRow(Num(110), "=B3/0")>>] }

\* workbooks of one or two sheets; openpyxl gives no two sheets of a
\* workbook one title
XlWorkbooks ==
    {<<sheet>> : sheet \in XlSheets}
        \cup {wb \in {<<first, second>> : first \in XlSheets, second \in XlSheets} :
                  wb[1].name # wb[2].name}

\* liquidity_data is only tested against None (line 470)
XlLiquidityData == {None, EmptyDataFrame}

CallValidateExcelModel ==
    /\ OPENPYXL_AVAILABLE
    /\ last.op = "idle"
    /\ \E wb \in XlWorkbooks, liquidity_data \in XlLiquidityData :
         last' = Call("validate_excel_model",
                      [wb |-> wb, liquidity_data |-> liquidity_data],
                      validate_excel_model(wb, liquidity_data))
    /\ UNCHANGED <<result, validator, held>>

NextModules ==
    \/ CallValidateExcelModel
    \/ CallAnalyzeAggregates
    \/ CallValidateAnalyzedGrowth
    \/ CallValidateAnalyzedAggregates
    \/ CallAnalyzeBalanceSheet
    \/ CallValidateAnalyzedBalanceSheet
    \/ CallValidateBalanceSheetCalculations
    \/ CallCentralBankValidateOutput
    \/ CallIdentifyCycles
    \/ CallValidateIdentifiedPhase
    \/ CallValidateIdentifiedCycles
    \/ CallValidateCycleIdentification
    \/ CallLiquidityCycleValidateOutput
    \/ CallValidateGrowthCalculations
    \/ CallMonetaryAggregatesValidateOutput
    \/ Discard

SpecModules == InitModules /\ [][NextModules]_vars

----------------------------------------------------------------------------
(* A caller that keeps its table, its analysis_results and every report it *)
(* was returned.  objects is the heap: a function from references to the   *)
(* objects alive, each a record that names its type.  A DataFrame object   *)
(* holds its columns, its rows and the dtype of its date column ('object'  *)
(* while the dates are text); a ValidationResult object holds references   *)
(* to its three lists.  inputs is the caller's frame: the references it    *)
(* holds.  An operation is the sequence of its statements that construct,  *)
(* copy or write an object; the entries it adds to the report it           *)
(* constructed are those of the operation's definition above.              *)

\* a reference that no object alive has
Fresh(heap) ==
    CHOOSE ref \in 1..(Cardinality(DOMAIN heap) + 1) :
        ref \notin DOMAIN heap /\ \A lower \in 1..(ref - 1) : lower \in DOMAIN heap

\* a new object: the heap that holds it and its reference
Alloc(heap, object) ==
    [heap |-> heap @@ (Fresh(heap) :> object), ref |-> Fresh(heap)]

DataFrameObject(frame, date_dtype) ==
    [type |-> "DataFrame", columns |-> frame.columns, rows |-> frame.rows,
     date_dtype |-> date_dtype]

\* the table an object holds
FrameOf(object) == [columns |-> object.columns, rows |-> object.rows]

DataFrame_copy_same_object(heap, ref) == [heap |-> heap, ref |-> ref]

\* data.copy(): a new object with the contents of the one copied
DataFrame_copy(heap, ref) == Alloc(heap, heap[ref])

\* df[date_column] = pd.to_datetime(df[date_column]): the date column of the
\* object that df refers to is written in place
DataFrame_setitem_to_datetime(heap, ref) ==
    [heap EXCEPT ![ref].date_dtype = "datetime64[ns]"]

\* df.sort_values(date_column).reset_index(drop=True): a new object
DataFrame_sort_values(heap, ref) ==
    Alloc(heap, [heap[ref] EXCEPT !.rows = SortByDate(@)])

\* df.sort_values([bank_column, date_column]).reset_index(drop=True)
DataFrame_sort_values_by_bank(heap, ref) ==
    LET rows == heap[ref].rows
        HasRows(bank) == BankFrame(rows, bank) # <<>>
        banks == SelectSeq(BankOrder, HasRows)
        Sorted[i \in 0..Len(banks)] ==
            IF i = 0 THEN <<>> ELSE Sorted[i - 1] \o BankFrame(rows, banks[i])
    IN  Alloc(heap, [heap[ref] EXCEPT !.rows = Sorted[Len(banks)]])

\* df[df[bank_column] == bank]: a new object with the rows of one bank
DataFrame_of_bank(heap, ref, bank) ==
    LET OfBank(row) == row.central_bank = bank
    IN  Alloc(heap, [heap[ref] EXCEPT !.rows = SelectSeq(@, OfBank)])

\* validator = OutputValidator()
OutputValidator_new(heap) ==
    Alloc(heap, [type |-> "OutputValidator"] @@ OutputValidator__init__(DefaultTolerance))

EmptyList == [type |-> "list", items |-> <<>>]

\* __init__ of a report class: a new object of the class with three new
\* lists
Report_new(heap, class) ==
    Bound(Alloc(heap, EmptyList), LAMBDA errors :
    Bound(Alloc(errors.heap, EmptyList), LAMBDA warnings :
    Bound(Alloc(warnings.heap, EmptyList), LAMBDA passed :
    Alloc(passed.heap,
          [type |-> "ValidationResult", class |-> class, errors |-> errors.ref,
           warnings |-> warnings.ref, passed |-> passed.ref, is_valid |-> TRUE]))))

\* ValidationResult() of output_validator.py, lines 26-33; the analyzers
\* construct this class where they could import the module
ValidationResult_new(heap) == Report_new(heap, "output_validator.ValidationResult")

\* ValidationResult() of the stand-in class an analyzer module defines where
\* the import failed (liquidity_cycle_analyzer.py:23-28 and the like)
DummyValidationResult_new(heap, module) == Report_new(heap, module \o ".ValidationResult")

\* the class of output_validator.py defines add_error, add_warning and
\* add_passed (lines 35-57); the stand-in classes define __init__ only
HasAddMethods(report) == report.class = "output_validator.ValidationResult"

\* the object of a report and its lists
ReportObjects(heap, ref) == {ref, heap[ref].errors, heap[ref].warnings, heap[ref].passed}

\* a report as its holder reads it
ReportRead(heap, ref) ==
    [errors |-> heap[heap[ref].errors].items,
     warnings |-> heap[heap[ref].warnings].items,
     passed |-> heap[heap[ref].passed].items,
     is_valid |-> heap[ref].is_valid]

\* add_error, lines 35-42: self.errors.append(...); self.is_valid = False
Report_add_error(heap, ref, check_name, message) ==
    [heap EXCEPT ![heap[ref].errors].items = Append(@, Entry(check_name, message, <<>>)),
                 ![ref].is_valid = FALSE]

\* add_warning, lines 44-50: self.warnings.append(...)
Report_add_warning(heap, ref, check_name, message) ==
    [heap EXCEPT ![heap[ref].warnings].items =
                     Append(@, [check |-> check_name, message |-> message,
                                details |-> <<>>])]

\* add_passed, lines 52-57: self.passed.append(...)
Report_add_passed(heap, ref, check_name, message) ==
    [heap EXCEPT ![heap[ref].passed].items = Append(@, PassedEntry(check_name, message))]

\* the add_* and extend calls an operation makes on the report it
\* constructed: the entries of report are appended to the lists of the
\* object at ref and its is_valid is set
Report_extended(heap, ref, report) ==
    [heap EXCEPT ![heap[ref].errors].items = @ \o report.errors,
                 ![heap[ref].warnings].items = @ \o report.warnings,
                 ![heap[ref].passed].items = @ \o report.passed,
                 ![ref].is_valid = report.is_valid]

Report_filled(heap, ref, report) ==
    Bound(report, LAMBDA entries : Report_extended(heap, ref, entries))

\* what an operation returns: the heap it leaves and the reference returned
HeapReturn(heap, ref) == [heap |-> heap, ref |-> ref]

\* df = data.copy(); df = df.sort_values(date_column).reset_index(drop=True)
\* (KeyError without the date column): the heap after the two statements
HeapCopySorted(heap, data) ==
    Bound(DataFrame_copy(heap, data), LAMBDA df :
    IF "date" \in df.heap[df.ref].columns
    THEN DataFrame_sort_values(df.heap, df.ref).heap
    ELSE df.heap)

\* df = data.copy(); df[date_column] = pd.to_datetime(df[date_column])
\* (KeyError without the date column); df = df.sort_values(date_column)
\* .reset_index(drop=True): the heap after the three statements
HeapCopyToDatetimeSorted(heap, data) ==
    Bound(DataFrame_copy(heap, data), LAMBDA df :
    IF "date" \in df.heap[df.ref].columns
    THEN DataFrame_sort_values(DataFrame_setitem_to_datetime(df.heap, df.ref), df.ref).heap
    ELSE df.heap)

\* OutputValidator.validate_growth_rate_consistency: line 147 constructs the
\* report, line 150 copies the table, line 151 binds df to the sorted table
HeapValidateGrowthRateConsistency(heap, analysis_results, data, value_column) ==
    Bound(ValidationResult_new(heap), LAMBDA report :
    Bound(HeapCopySorted(report.heap, data), LAMBDA sorted :
    HeapReturn(Report_filled(sorted, report.ref,
                   validate_growth_rate_consistency(sorted[analysis_results].value,
                       FrameOf(sorted[data]), value_column, "date")),
               report.ref)))

\* lines 224-233 of validate_cycle_phase_consistency: lines 236-237 are
\* reached with a phase that is not 'unknown'
CpReachesTheCopy(cycle_analysis) ==
    /\ "current_phase" \in DOMAIN cycle_analysis
    /\ Get(cycle_analysis.current_phase, "phase", "unknown") # "unknown"

\* OutputValidator.validate_cycle_phase_consistency: line 222 constructs the
\* report, line 236 copies the table, line 237 binds df to the sorted table
HeapValidateCyclePhaseConsistency(heap, analysis_results, liquidity_data) ==
    Bound(ValidationResult_new(heap), LAMBDA report :
    Bound(IF CpReachesTheCopy(report.heap[analysis_results].value)
          THEN HeapCopySorted(report.heap, liquidity_data)
          ELSE report.heap, LAMBDA sorted :
    HeapReturn(Report_filled(sorted, report.ref,
                   validate_cycle_phase_consistency(sorted[analysis_results].value,
                       FrameOf(sorted[liquidity_data]), "liquidity_index", "date")),
               report.ref)))

\* OutputValidator.comprehensive_validation, lines 602-630, called with a
\* source_data and neither excel_path nor report_text
HeapComprehensiveValidation(heap, analysis_results, source_data) ==
    Bound(ValidationResult_new(heap), LAMBDA report :
    Bound(IF "current_phase" \in DOMAIN report.heap[analysis_results].value
                 \/ "cycles" \in DOMAIN report.heap[analysis_results].value
          THEN HeapValidateCyclePhaseConsistency(report.heap, analysis_results,
                                                 source_data).heap
          ELSE report.heap, LAMBDA cycle_result :
    HeapReturn(Report_filled(cycle_result, report.ref,
                   comprehensive_validation(cycle_result[analysis_results].value,
                                            FrameOf(cycle_result[source_data]))),
               report.ref)))

\* result = ValidationResult(); validator = OutputValidator(), the first
\* two statements of an analyzer's operation past its VALIDATOR_AVAILABLE
\* test: the heap with the validator and the reference of the report
HeapReportAndValidator(heap) ==
    Bound(ValidationResult_new(heap), LAMBDA report :
    HeapReturn(OutputValidator_new(report.heap).heap, report.ref))

\* LiquidityCycleAnalyzer.validate_cycle_identification, lines 248-299:
\* no statement names the table
HeapValidateCycleIdentification(heap, cycles, liquidity_data) ==
    IF ~VALIDATOR_AVAILABLE
    THEN DummyValidationResult_new(heap, "liquidity_cycle_analyzer")
    ELSE Bound(HeapReportAndValidator(heap), LAMBDA made :
         HeapReturn(Report_filled(made.heap, made.ref,
                        validate_cycle_identification(cycles,
                            FrameOf(made.heap[liquidity_data]))),
                    made.ref))

\* LiquidityCycleAnalyzer.validate_output, lines 320-355
HeapLiquidityCycleValidateOutput(heap, analysis_results, liquidity_data) ==
    IF ~VALIDATOR_AVAILABLE
    THEN DummyValidationResult_new(heap, "liquidity_cycle_analyzer")
    ELSE Bound(HeapReportAndValidator(heap), LAMBDA made :
         Bound(IF "cycles" \in DOMAIN made.heap[analysis_results].value
               THEN HeapValidateCycleIdentification(made.heap,
                        made.heap[analysis_results].value.cycles, liquidity_data).heap
               ELSE made.heap, LAMBDA cycle_result :
         Bound(IF "current_phase" \in DOMAIN cycle_result[analysis_results].value
               THEN HeapValidateCyclePhaseConsistency(cycle_result, analysis_results,
                                                      liquidity_data).heap
               ELSE cycle_result, LAMBDA phase_result :
         HeapReturn(Report_filled(phase_result, made.ref,
                        LiquidityCycle_validate_output(
                            phase_result[analysis_results].value,
                            FrameOf(phase_result[liquidity_data]))),
                    made.ref))))

\* MonetaryAggregatesAnalyzer.validate_growth_calculations: lines 270-271
\* construct the report and a validator, line 274 copies the table, line 275
\* writes the date column of df, line 276 binds df to the sorted table
HeapValidateGrowthCalculations(heap, analysis_results, monetary_data) ==
    IF ~VALIDATOR_AVAILABLE
    THEN DummyValidationResult_new(heap, "monetary_aggregates_analyzer")
    ELSE Bound(HeapReportAndValidator(heap), LAMBDA made :
         Bound(HeapCopyToDatetimeSorted(made.heap, monetary_data), LAMBDA sorted :
         HeapReturn(Report_filled(sorted, made.ref,
                        validate_growth_calculations(sorted[analysis_results].value,
                                                     FrameOf(sorted[monetary_data]))),
                    made.ref)))

\* lines 387-395 of MonetaryAggregatesAnalyzer.validate_output: the
\* hierarchy check is called with two values or more
MaCallsTheHierarchyCheck(analysis) ==
    /\ "aggregates" \in DOMAIN analysis
    /\ Cardinality(DOMAIN MaHierarchyValues(analysis.aggregates)) > 1

\* OutputValidator.validate_monetary_aggregates_hierarchy, lines 487-537:
\* line 500 constructs the report the operation fills and returns
HeapValidateMonetaryAggregatesHierarchy(heap, aggregates) ==
    Bound(ValidationResult_new(heap), LAMBDA report :
    HeapReturn(Report_filled(report.heap, report.ref,
                   validate_monetary_aggregates_hierarchy(aggregates)),
               report.ref))

\* MonetaryAggregatesAnalyzer.validate_output, lines 368-415: the report,
\* a validator, the report of validate_growth_calculations, that of the
\* hierarchy check (line 395, for two values or more) and that of
\* validate_growth_rate_consistency on value_columns[0] (line 402, for 13
\* rows or more)
HeapMonetaryAggregatesValidateOutput(heap, analysis_results, monetary_data) ==
    IF ~VALIDATOR_AVAILABLE
    THEN DummyValidationResult_new(heap, "monetary_aggregates_analyzer")
    ELSE Bound(HeapReportAndValidator(heap), LAMBDA made :
         Bound(HeapValidateGrowthCalculations(made.heap, analysis_results,
                                              monetary_data).heap, LAMBDA growth_result :
         Bound(IF MaCallsTheHierarchyCheck(growth_result[analysis_results].value)
               THEN HeapValidateMonetaryAggregatesHierarchy(growth_result,
                        MaHierarchyValues(
                            growth_result[analysis_results].value.aggregates)).heap
               ELSE growth_result, LAMBDA hierarchy_result :
         Bound(IF Len(hierarchy_result[monetary_data].rows) >= 13
               THEN HeapValidateGrowthRateConsistency(hierarchy_result, analysis_results,
                                                      monetary_data, value_columns[1]).heap
               ELSE hierarchy_result, LAMBDA consistency_result :
         HeapReturn(Report_filled(consistency_result, made.ref,
                        MonetaryAggregates_validate_output(
                            consistency_result[analysis_results].value,
                            FrameOf(consistency_result[monetary_data]))),
                    made.ref)))))

\* bank_data = df[df[bank_column] == bank].copy(); bank_data =
\* bank_data.sort_values(date_column), central_bank_analyzer.py:301-302:
\* the heap after the two statements
HeapBankTable(heap, df, bank) ==
    Bound(DataFrame_of_bank(heap, df, bank), LAMBDA selected :
    Bound(DataFrame_copy(selected.heap, selected.ref), LAMBDA bank_df :
    DataFrame_sort_values(bank_df.heap, bank_df.ref).heap))

\* OutputValidator.validate_policy_stance_consistency, lines 539-581: line
\* 556 constructs the report; a comparison that raises (lines 559-579) comes
\* before any entry is added.  raised: the call did not return
HeapValidatePolicyStanceConsistency(heap, policy_stance, balance_sheet_change, yoy_change) ==
    Bound(ValidationResult_new(heap), LAMBDA report :
    Bound(validate_policy_stance_consistency(policy_stance, balance_sheet_change,
                                             yoy_change), LAMBDA stance_result :
    IF IsRaised(stance_result)
    THEN [heap |-> report.heap, ref |-> report.ref, raised |-> TRUE]
    ELSE [heap |-> Report_extended(report.heap, report.ref, stance_result),
          ref |-> report.ref, raised |-> FALSE]))

\* lines 334-346 for one bank: the policy stance check is called with both
\* keys in bank_data
HeapStanceCheck(heap, bank_data) ==
    IF "policy_stance" \in DOMAIN bank_data /\ "recent_monthly_change" \in DOMAIN bank_data
    THEN HeapValidatePolicyStanceConsistency(heap, bank_data.policy_stance,
             bank_data.recent_monthly_change, CbYoyOrZero(bank_data))
    ELSE [heap |-> heap, ref |-> 0, raised |-> FALSE]

RECURSIVE HeapBankLoop(_, _, _, _)
\* central_bank_analyzer.py:300-346, for the (bank, bank_data) items of
\* by_bank from item i on: the tables of the bank (lines 301-302), nothing
\* more for a bank of fewer than 13 rows (lines 304-309), else the report of
\* the policy stance check; the loop ends where that check raises
HeapBankLoop(heap, df, by_bank, i) ==
    IF i > Len(by_bank)
    THEN heap
    ELSE Bound(HeapBankTable(heap, df, by_bank[i][1]), LAMBDA tables :
         IF Len(BankFrame(tables[df].rows, by_bank[i][1])) < 13
         THEN HeapBankLoop(tables, df, by_bank, i + 1)
         ELSE Bound(HeapStanceCheck(tables, by_bank[i][2]), LAMBDA stance_result :
              IF stance_result.raised
              THEN stance_result.heap
              ELSE HeapBankLoop(stance_result.heap, df, by_bank, i + 1)))

\* df = balance_sheet_data.copy(); df[date_column] = pd.to_datetime(...);
\* df = df.sort_values([bank_column, date_column]).reset_index(drop=True),
\* lines 296-298, and the loop over by_bank
HeapBalanceSheetTables(heap, balance_sheet_data, by_bank) ==
    Bound(DataFrame_copy(heap, balance_sheet_data), LAMBDA df :
    Bound(DataFrame_sort_values_by_bank(
              DataFrame_setitem_to_datetime(df.heap, df.ref), df.ref), LAMBDA sorted :
    HeapBankLoop(sorted.heap, sorted.ref, by_bank, 1)))

\* CentralBankAnalyzer.validate_balance_sheet_calculations: lines 288-289
\* construct the report and a validator; the tables are made with a
\* by_bank key (line 292)
HeapValidateBalanceSheetCalculations(heap, analysis_results, balance_sheet_data) ==
    IF ~VALIDATOR_AVAILABLE
    THEN DummyValidationResult_new(heap, "central_bank_analyzer")
    ELSE Bound(HeapReportAndValidator(heap), LAMBDA made :
         Bound(IF "by_bank" \notin DOMAIN made.heap[analysis_results].value
               THEN made.heap
               ELSE HeapBalanceSheetTables(made.heap, balance_sheet_data,
                        made.heap[analysis_results].value.by_bank), LAMBDA looped :
         HeapReturn(Report_filled(looped, made.ref,
                        validate_balance_sheet_calculations(
                            looped[analysis_results].value,
                            looped[balance_sheet_data].rows)),
                    made.ref)))

\* CentralBankAnalyzer.validate_output, lines 374-397
HeapCentralBankValidateOutput(heap, analysis_results, balance_sheet_data) ==
    IF ~VALIDATOR_AVAILABLE
    THEN DummyValidationResult_new(heap, "central_bank_analyzer")
    ELSE Bound(ValidationResult_new(heap), LAMBDA report :
         Bound(HeapValidateBalanceSheetCalculations(report.heap, analysis_results,
                                                    balance_sheet_data).heap,
               LAMBDA calc_result :
         HeapReturn(Report_filled(calc_result, report.ref,
                        CentralBank_validate_output(
                            calc_result[analysis_results].value,
                            calc_result[balance_sheet_data].rows)),
                    report.ref)))

\* the objects the caller can still reach: its table, its analysis_results
\* and the reports it holds; what a call made and did not return is let go
Collect(heap, frame) ==
    LET alive == {frame.analysis_results, frame.data}
                     \cup UNION {ReportObjects(heap, frame.reports[i]) :
                                     i \in 1..Len(frame.reports)}
    IN  [ref \in alive |-> heap[ref]]

FrameAnalyses ==
    {[cycles |-> <<>>],
     [current_phase |-> [phase |-> "expansion"]],
     [current_phase |-> [phase |-> "contraction", cycle_completion_percent |-> Num(56),
                         months_elapsed |-> Num(6), months_to_turning_point |-> Num(6)]]}

\* the newest value keeps the mean change of the last six rows (-10% and 4%)
\* off the thresholds -2 and 2, where the rounding of a double decides
FrameTables ==
    {EmptyDataFrame,
     SeriesFrame(Shape(6, Num(100), Num(100), Num(50))),
     SeriesFrame(Shape(13, Num(100), Num(100), Num(120))),
     SeriesFrame(Shape(14, Num(100), Num(0), Num(120)))}

BalanceSheetColumns == {"central_bank", "date", "total_assets"}

\* what the caller holds before its first call: the kind of its table, its
\* analysis_results and its table, the dates of which are text or datetimes
FrameInputs ==
    {[kind |-> "liquidity", analysis_results |-> analysis,
      data |-> DataFrameObject(table, "datetime64[ns]")] :
         analysis \in FrameAnalyses, table \in FrameTables}
    \cup {[kind |-> "liquidity", analysis_results |-> analysis,
           data |-> DataFrameObject(SeriesFrame(Shape(6, Num(100), Num(100), Num(50))),
                                    "object")] :
              analysis \in FrameAnalyses}
    \cup {[kind |-> "monetary", analysis_results |-> analysis,
           data |-> DataFrameObject(table, date_dtype)] :
              analysis \in {[error |-> "no data"],
                            [aggregates |-> ("M2" :> [current_value |-> Num(990),
                                                      current_yoy_growth |-> Num(10)])],
                            [aggregates |-> ("M0" :> [current_value |-> Num(1000)]
                                             @@ "M2" :> [current_value |-> Num(990)])]},
              table \in {EmptyDataFrame,
                         MaFrame({"M0", "M2"}, MaShape(13, Num(300), Num(300), Num(330))),
                         MaFrame({"date", "M0", "M2"},
                                 MaShape(13, Num(300), Num(300), Num(330)))},
              date_dtype \in {"object", "datetime64[ns]"}}
    \cup {[kind |-> "balance_sheet", analysis_results |-> input[1],
           data |-> DataFrameObject([columns |-> BalanceSheetColumns, rows |-> input[2]],
                                    "object")] :
              input \in {<<[total_banks |-> 0], BankRows("Fed", [n |-> 12, ago |-> Num(100), cur |-> Num(90)])>>,
                         <<[by_bank |-> <<<<"Fed", [yoy_change_percent |-> Num(-10),
                                                    policy_stance |-> "contractive",
                                                    recent_monthly_change |-> Num(-1)]>>>>],
                           BankRows("Fed", [n |-> 14, ago |-> Num(100), cur |-> Num(90)])>>,
                         <<[by_bank |-> <<<<"Fed", [yoy_change_percent |-> Num(10)]>>,
                                          <<"ECB", [yoy_change_percent |-> Num(10)]>>>>],
                           BankRows("ECB", [n |-> 13, ago |-> Num(100), cur |-> Num(110)])
                               \o BankRows("Fed", [n |-> 14, ago |-> Num(100), cur |-> Num(90)])>>}}

InitFrame ==
    /\ result = ValidationResult__init__
    /\ validator = OutputValidator__init__(DefaultTolerance)
    /\ last = Idle
    /\ \E input \in FrameInputs :
         /\ objects = <<[type |-> "dict", value |-> input.analysis_results], input.data>>
         /\ inputs = [kind |-> input.kind, analysis_results |-> 1, data |-> 2,
                      reports |-> <<>>]
    /\ checked_urls = <<>>
    /\ requests = <<>>
    /\ now = 0
    /\ calls = [c \in Callers |-> IdleCall]
    /\ VALIDATOR_AVAILABLE \in BOOLEAN
    /\ OPENPYXL_AVAILABLE = TRUE

\* the call returns: the caller keeps the reference it was returned
FrameReturned(returned) ==
    /\ last.op = "idle"
    /\ Len(inputs.reports) < MaxReports
    /\ \E made \in {returned} :
         /\ inputs' = [inputs EXCEPT !.reports = Append(@, made.ref)]
         /\ objects' = Collect(made.heap, inputs')
    /\ UNCHANGED <<result, validator, last, checked_urls, requests, now, calls, imports>>

\* the operations of OutputValidator exist where its module is importable
FrameValidateGrowthRateConsistency ==
    /\ VALIDATOR_AVAILABLE
    /\ inputs.kind = "liquidity"
    /\ FrameReturned(HeapValidateGrowthRateConsistency(objects, inputs.analysis_results,
                                                       inputs.data, "liquidity_index"))

FrameValidateCyclePhaseConsistency ==
    /\ VALIDATOR_AVAILABLE
    /\ inputs.kind = "liquidity"
    /\ FrameReturned(HeapValidateCyclePhaseConsistency(objects, inputs.analysis_results,
                                                       inputs.data))

FrameComprehensiveValidation ==
    /\ VALIDATOR_AVAILABLE
    /\ inputs.kind = "liquidity"
    /\ FrameReturned(HeapComprehensiveValidation(objects, inputs.analysis_results,
                                                 inputs.data))

FrameLiquidityCycleValidateOutput ==
    /\ inputs.kind = "liquidity"
    /\ FrameReturned(HeapLiquidityCycleValidateOutput(objects, inputs.analysis_results,
                                                      inputs.data))

FrameValidateGrowthCalculations ==
    /\ inputs.kind = "monetary"
    /\ FrameReturned(HeapValidateGrowthCalculations(objects, inputs.analysis_results,
                                                    inputs.data))

FrameMonetaryAggregatesValidateOutput ==
    /\ inputs.kind = "monetary"
    /\ FrameReturned(HeapMonetaryAggregatesValidateOutput(objects, inputs.analysis_results,
                                                          inputs.data))

FrameValidateBalanceSheetCalculations ==
    /\ inputs.kind = "balance_sheet"
    /\ FrameReturned(HeapValidateBalanceSheetCalculations(objects, inputs.analysis_results,
                                                          inputs.data))

FrameCentralBankValidateOutput ==
    /\ inputs.kind = "balance_sheet"
    /\ FrameReturned(HeapCentralBankValidateOutput(objects, inputs.analysis_results,
                                                   inputs.data))

\* what a call of an add_* method of report i did: it returned (None), or
\* the report's class has no such method and the call raised AttributeError
FrameAddCall(method, i, ret) ==
    Call(method, [report |-> i, check_name |-> "caller_note",
                  message |-> "added by the caller"], ret)

\* the entries of a report that its holder added
FrameNotes(report) ==
    LET IsNote(entry) == entry.check = "caller_note"
    IN  Len(SelectSeq(report.errors, IsNote)) + Len(SelectSeq(report.warnings, IsNote))
            + Len(SelectSeq(report.passed, IsNote))

\* the holder of report i calls its method, which changes the heap to added
FrameAdd(method, i, added) ==
    /\ last.op = "idle"
    /\ i \in 1..Len(inputs.reports)
    /\ FrameNotes(ReportRead(objects, inputs.reports[i])) < MaxNotes
    /\ IF HasAddMethods(objects[inputs.reports[i]])
       THEN /\ objects' = added
            /\ last' = FrameAddCall(method, i, None)
       ELSE /\ objects' = objects
            /\ last' = FrameAddCall(method, i, Raised("AttributeError"))
    /\ UNCHANGED <<result, validator, inputs, checked_urls, requests, now, calls, imports>>

\* report.add_error('caller_note', 'added by the caller') on a report held
FrameAddError ==
    \E i \in 1..MaxReports :
        FrameAdd("add_error", i,
                 Report_add_error(objects, inputs.reports[i], "caller_note",
                                  "added by the caller"))

\* report.add_warning('caller_note', 'added by the caller') on a report held
FrameAddWarning ==
    \E i \in 1..MaxReports :
        FrameAdd("add_warning", i,
                 Report_add_warning(objects, inputs.reports[i], "caller_note",
                                    "added by the caller"))

\* report.add_passed('caller_note', 'added by the caller') on a report held
FrameAddPassed ==
    \E i \in 1..MaxReports :
        FrameAdd("add_passed", i,
                 Report_add_passed(objects, inputs.reports[i], "caller_note",
                                   "added by the caller"))

\* the caller lets go of its reports
FrameRelease ==
    /\ last.op = "idle"
    /\ inputs.reports # <<>>
    /\ inputs' = [inputs EXCEPT !.reports = <<>>]
    /\ objects' = Collect(objects, inputs')
    /\ UNCHANGED <<result, validator, last, checked_urls, requests, now, calls, imports>>

NextFrame ==
    \/ FrameValidateGrowthRateConsistency
    \/ FrameValidateCyclePhaseConsistency
    \/ FrameComprehensiveValidation
    \/ FrameLiquidityCycleValidateOutput
    \/ FrameValidateGrowthCalculations
    \/ FrameMonetaryAggregatesValidateOutput
    \/ FrameValidateBalanceSheetCalculations
    \/ FrameCentralBankValidateOutput
    \/ FrameAddError
    \/ FrameAddWarning
    \/ FrameAddPassed
    \/ FrameRelease
    \/ Discard

SpecFrame == InitFrame /\ [][NextFrame]_vars

----------------------------------------------------------------------------
(* One URLValidator called again and again while the clock runs *)

Outcome(kind, status_code, message) ==
    [kind |-> kind, status_code |-> status_code, message |-> message]

\* what session.head may do for a URL (line 84)
NetworkOutcomes ==
    {Outcome("response", 200, ""), Outcome("response", 404, ""),
     Outcome("Timeout", 0, ""), Outcome("ConnectionError", 0, "Connection refused")}

Urls == {"https://youtube.com/w", "example.org/a"}

\* f"{url}_{None}" and f"{url}_{'None'}" are one cache key
ExpectedTypes == {None, Str("None"), Str("Course")}

ResourceNames == {None, Str("Intro")}

\* resource lists: one pair twice, the second time without a name; a link
\* without scheme and a resource without URL; an empty url with a link, and
\* the type 'None' after no type
ResourceLists ==
    { <<[url |-> Str("https://youtube.com/w"), type |-> Str("Course"), name |-> Str("Intro")],
        [url |-> Str("https://youtube.com/w"), type |-> Str("Course")]>>,
      <<[link |-> Str("example.org/a")], [name |-> Str("No URL")]>>,
      <<[url |-> Str(""), link |-> Str("https://youtube.com/w")],
        [url |-> Str("https://youtube.com/w"), type |-> Str("None")]>> }

\* caller c calls validate_url, lines 62-64: on a cache hit it returns the
\* stored record, on a miss it goes on to line 66
CallValidateUrl(c) ==
    /\ calls[c].pc = "idle"
    /\ now < MaxCalls
    /\ \E url \in Urls, expected_type \in ExpectedTypes, resource_name \in ResourceNames :
         LET tested == validate_url_to_line64(UrlState(checked_urls, requests, now), url,
                                              expected_type)
         IN  /\ now' = tested.state.now
             /\ IF tested.hit
                THEN /\ calls' = calls
                     /\ last' = Call("validate_url",
                                     [url |-> url, expected_type |-> expected_type,
                                      resource_name |-> resource_name],
                                     tested.ret)
                ELSE /\ calls' = [calls EXCEPT ![c] =
                                     UrlCall("line66", "validate_url", url, expected_type,
                                             resource_name, <<>>, 0, <<>>, None)]
                     /\ last' = last
    /\ UNCHANGED <<result, validator, inputs, objects, checked_urls, requests, imports>>

\* caller c, past the cache test, runs lines 66-84 of validate_url: it
\* builds the result of a URL of bad format, or sends the request and waits
\* inside session.head
UrlLine66(c) ==
    /\ calls[c].pc = "line66"
    /\ LET call == calls[c]
           begun == validate_url_to_head(UrlState(checked_urls, requests, now), call.url,
                                         call.expected_type, call.resource_name)
       IN  /\ requests' = begun.state.requests
           /\ calls' = [calls EXCEPT ![c] =
                           IF begun.waiting THEN UrlCallAt(call, "head", None)
                           ELSE UrlCallAt(call, "store", begun.built)]
    /\ UNCHANGED <<result, validator, last, inputs, objects, checked_urls, now, imports>>

\* session.head answers caller c, or raises: validate_url builds its result
ReturnFromHead(c) ==
    /\ calls[c].pc = "head"
    /\ \E outcome \in NetworkOutcomes :
         LET call == calls[c]
         IN  calls' = [calls EXCEPT ![c] =
                          UrlCallAt(call, "store",
                              validate_url_from_head(UrlState(checked_urls, requests, now),
                                  call.url, call.expected_type, call.resource_name,
                                  outcome))]
    /\ UNCHANGED <<result, validator, last, inputs, objects, checked_urls, requests, now,
                   imports>>

\* caller c stores the result it has built (line 80 or 165) and validate_url
\* returns it, to the caller or to the batch loop, which then sleeps
UrlStoreAndReturn(c) ==
    /\ calls[c].pc = "store"
    /\ LET call == calls[c]
           ended == validate_url_store(UrlState(checked_urls, requests, now), call.url,
                                       call.expected_type, call.built)
       IN  /\ checked_urls' = ended.state.checked_urls
           /\ IF call.op = "validate_url"
              THEN /\ calls' = [calls EXCEPT ![c] = IdleCall]
                   /\ last' = Call("validate_url",
                                   [url |-> call.url, expected_type |-> call.expected_type,
                                    resource_name |-> call.resource_name],
                                   ended.ret)
              ELSE /\ calls' = [calls EXCEPT ![c] =
                                   SleepCall(call.resources, call.idx + 1,
                                             Append(call.results, ended.ret))]
                   /\ last' = last
    /\ UNCHANGED <<result, validator, inputs, objects, requests, now, imports>>

\* caller c calls batch_validate_urls and runs up to the cache test of the
\* first resource with a URL
CallBatchValidateUrls(c) ==
    /\ calls[c].pc = "idle"
    /\ \E resources \in ResourceLists :
         /\ now + Len(resources) <= MaxCalls
         /\ LET run == BatchLoop(UrlState(checked_urls, requests, now), resources, 1, <<>>)
            IN  /\ now' = run.state.now
                /\ calls' = [calls EXCEPT ![c] = run.call]
                /\ last' = IF run.done
                           THEN Call("batch_validate_urls", [resources |-> resources],
                                     run.ret)
                           ELSE last
    /\ UNCHANGED <<result, validator, inputs, objects, checked_urls, requests, imports>>

\* the sleep of caller c's batch ends: the loop goes on up to the cache test
\* of the next resource with a URL, or returns the results
WakeFromSleep(c) ==
    /\ calls[c].pc = "sleep"
    /\ LET call == calls[c]
           run == BatchLoop(UrlState(checked_urls, requests, now), call.resources,
                            call.idx, call.results)
       IN  /\ now' = run.state.now
           /\ calls' = [calls EXCEPT ![c] = run.call]
           /\ last' = IF run.done
                      THEN Call("batch_validate_urls", [resources |-> call.resources],
                                run.ret)
                      ELSE last
    /\ UNCHANGED <<result, validator, inputs, objects, checked_urls, requests, imports>>

\* one caller making one call after the other, as ContentValidator does
NextUrls ==
    \/ CallValidateUrl("A")
    \/ UrlLine66("A")
    \/ ReturnFromHead("A")
    \/ UrlStoreAndReturn("A")
    \/ CallBatchValidateUrls("A")
    \/ WakeFromSleep("A")

SpecUrls == Init /\ [][NextUrls]_vars

\* two callers (threads) sharing the validator
NextUrlThreads ==
    \E c \in Callers :
        \/ CallValidateUrl(c)
        \/ UrlLine66(c)
        \/ ReturnFromHead(c)
        \/ UrlStoreAndReturn(c)
        \/ CallBatchValidateUrls(c)
        \/ WakeFromSleep(c)

SpecUrlThreads == Init /\ [][NextUrlThreads]_vars

----------------------------------------------------------------------------
(* Several callers (threads) making calls on one OutputValidator.  A call  *)
(* is a sequence of steps, each holding at most one read of the validator; *)
(* the steps of different callers interleave in any order.  calls[c] is    *)
(* the frame of caller c: where its call stands, its arguments, the locals *)
(* it has bound and, once it returned, what it returned.  inputs holds the *)
(* tolerance the validator was constructed with.                           *)

\* the frame of a call that stands before the statement of that line
AtLine(line, op, args) == [pc |-> line, op |-> op, args |-> args]

\* the frame of a call that has returned
ReturnedCall(op, args, ret) == [pc |-> "returned", op |-> op, args |-> args, ret |-> ret]

ThreadTolerances == {DefaultTolerance, Num(2)}

InitThreads ==
    /\ result = ValidationResult__init__
    /\ \E tolerance \in ThreadTolerances :
         /\ validator = OutputValidator__init__(tolerance)
         /\ inputs = [tolerance |-> tolerance]
    /\ last = Idle
    /\ objects = <<>>
    /\ checked_urls = <<>>
    /\ requests = <<>>
    /\ now = 0
    /\ calls = [c \in Callers |-> IdleCall]
    /\ VALIDATOR_AVAILABLE = TRUE
    /\ OPENPYXL_AVAILABLE = TRUE

\* the arguments of the calls made: a change of 10% reported as 10, 12 or 14,
\* a previous value of zero, the tolerance argument left out or 5
ThreadPercentChangeArgs ==
    [value_current : {Num(110)}, value_previous : {Num(100), Num(0)},
     reported_change : {Num(10), Num(12), Num(14)}, tolerance : {None, Num(5)}]

ThreadRangeValues == {Num(60), Num(80), NaN}

\* lines 110-115 of validate_percent_change: the call returns at once or
\* stands before line 116
ThreadCallPercentChange(c) ==
    /\ calls[c].pc = "idle"
    /\ \E args \in ThreadPercentChangeArgs :
         calls' = [calls EXCEPT ![c] =
             IF PcReturnsEarly(args.value_current, args.value_previous, args.reported_change)
             THEN ReturnedCall("validate_percent_change", args,
                      PcEarlyReturn(args.value_current, args.value_previous,
                                    args.reported_change))
             ELSE AtLine("line116", "validate_percent_change", args)]
    /\ UNCHANGED <<result, validator, last, inputs, objects, checked_urls, requests, now,
                   imports>>

\* line 116 and, with the local it bound, lines 117-126
ThreadLine116(c) ==
    /\ calls[c].pc = "line116"
    /\ LET args == calls[c].args
           after == PcLine116(validator, args.tolerance)
       IN  /\ validator' = after.self
           /\ calls' = [calls EXCEPT ![c] =
                  ReturnedCall(calls[c].op, args,
                      PcFromLine117(args.value_current, args.value_previous,
                                    args.reported_change, after.tol))]
    /\ UNCHANGED <<result, last, inputs, objects, checked_urls, requests, now, imports>>

\* a call of validate_range, or of one of its wrappers, which pass their
\* value on with a metric type of their own (lines 470 and 485): the call
\* stands before line 441
ThreadCallRange(c) ==
    /\ calls[c].pc = "idle"
    /\ \E value \in ThreadRangeValues :
         \/ \E metric_type \in {"cycle_length_months", "velocity", "liquidity_index"} :
              calls' = [calls EXCEPT ![c] =
                  AtLine("line441", "validate_range",
                         [value |-> value, metric_type |-> metric_type])]
         \/ calls' = [calls EXCEPT ![c] =
                AtLine("line441", "validate_cycle_length",
                       [value |-> value, metric_type |-> "cycle_length_months"])]
         \/ calls' = [calls EXCEPT ![c] =
                AtLine("line441", "validate_correlation",
                       [value |-> value, metric_type |-> "correlation"])]
    /\ UNCHANGED <<result, validator, last, inputs, objects, checked_urls, requests, now,
                   imports>>

\* lines 441-442: the first read of self.expected_ranges
ThreadLine441(c) ==
    /\ calls[c].pc = "line441"
    /\ calls' = [calls EXCEPT ![c] =
           IF RangeLine441(validator, calls[c].args.metric_type)
           THEN ReturnedCall(calls[c].op, calls[c].args,
                             RangeReturn(TRUE, "Unknown metric type"))
           ELSE AtLine("line444", calls[c].op, calls[c].args)]
    /\ UNCHANGED <<result, validator, last, inputs, objects, checked_urls, requests, now,
                   imports>>

\* line 444, the second read, which raises KeyError when the key is no
\* longer there, and, with the locals it bound, lines 446-455
ThreadLine444(c) ==
    /\ calls[c].pc = "line444"
    /\ calls' = [calls EXCEPT ![c] =
           ReturnedCall(calls[c].op, calls[c].args,
               IF calls[c].args.metric_type \in DOMAIN validator.expected_ranges
               THEN LET bounds == RangeLine444(validator, calls[c].args.metric_type)
                    IN  RangeFromLine446(calls[c].args.value, bounds[1], bounds[2])
               ELSE Raised("KeyError"))]
    /\ UNCHANGED <<result, validator, last, inputs, objects, checked_urls, requests, now,
                   imports>>

\* the table and the analysis_results of the calls that take them
ThreadTable == SeriesFrame(Shape(13, Num(100), Num(100), Num(120)))

ThreadAnalysis == [current_phase |-> [phase |-> "contraction"]]

\* the operations whose statements name no attribute of self
\* (validate_growth_rate_consistency, lines 128-201,
\* validate_cycle_phase_consistency, lines 203-290,
\* validate_monetary_aggregates_hierarchy, lines 487-537,
\* validate_policy_stance_consistency, lines 539-581, and
\* comprehensive_validation, lines 583-631, without excel_path and
\* report_text): one step each
ThreadCallWithoutSelf(c) ==
    /\ calls[c].pc = "idle"
    /\ \/ \E op \in {"validate_growth_rate_consistency", "validate_cycle_phase_consistency",
                      "comprehensive_validation"} :
            LET args == [analysis_results |-> ThreadAnalysis, data |-> ThreadTable]
            IN  calls' = [calls EXCEPT ![c] =
                    ReturnedCall(op, args,
                        CASE op = "validate_growth_rate_consistency" ->
                                 validate_growth_rate_consistency(args.analysis_results,
                                     args.data, "liquidity_index", "date")
                          [] op = "validate_cycle_phase_consistency" ->
                                 validate_cycle_phase_consistency(args.analysis_results,
                                     args.data, "liquidity_index", "date")
                          [] op = "comprehensive_validation" ->
                                 comprehensive_validation(args.analysis_results,
                                                          args.data))]
       \/ \E aggregates \in {[M1 |-> Num(10), M2 |-> Num(20)], [M1 |-> Num(20), M2 |-> Num(10)]} :
            calls' = [calls EXCEPT ![c] =
                ReturnedCall("validate_monetary_aggregates_hierarchy",
                             [aggregates |-> aggregates],
                             validate_monetary_aggregates_hierarchy(aggregates))]
       \/ \E policy_stance \in {"expansive", "contractive"} :
            LET args == [policy_stance |-> policy_stance,
                         balance_sheet_change |-> Num(1), yoy_change |-> Num(10)]
            IN  calls' = [calls EXCEPT ![c] =
                    ReturnedCall("validate_policy_stance_consistency", args,
                        validate_policy_stance_consistency(args.policy_stance,
                            args.balance_sheet_change, args.yoy_change))]
    /\ UNCHANGED <<result, validator, last, inputs, objects, checked_urls, requests, now,
                   imports>>

\* report texts: one whose only number, found by both patterns, is far
\* from the value of the source, one with a number close to it, and one
\* where the value itself occurs
ThreadReportTexts ==
    {ReportText("Growth was 12%", <<Num(12)>>, <<Num(12)>>, {}),
     ReportText("M2 at 9.95%", <<R(199, 20)>>, <<>>, {}),
     ReportText("M2 at 10%", <<Num(10)>>, <<>>, {"10"})}

ThreadSourceData ==
    {<<<<"m2_growth", 10>>>>, <<<<"m2_growth", 10>>, <<"m3_growth", 10>>>>}

\* where a call of validate_report_numerical_accuracy stands, with its locals
ReportCallAt(args, at) ==
    IF at.returns
    THEN ReturnedCall("validate_report_numerical_accuracy", args, at.ret)
    ELSE [pc |-> "line397", op |-> "validate_report_numerical_accuracy", args |-> args,
          frame |-> at.frame]

\* lines 370-396 of validate_report_numerical_accuracy: the call returns
\* without a read of self or stands before line 397
ThreadCallReportAccuracy(c) ==
    /\ calls[c].pc = "idle"
    /\ \E report_text \in ThreadReportTexts, source_data \in ThreadSourceData :
         calls' = [calls EXCEPT ![c] =
             ReportCallAt([report_text |-> report_text, source_data |-> source_data],
                          RaToLine397(RaStart, report_text, source_data))]
    /\ UNCHANGED <<result, validator, last, inputs, objects, checked_urls, requests, now,
                   imports>>

\* line 397, a read of self.tolerance, and the lines up to the next one
ThreadLine397(c) ==
    /\ calls[c].pc = "line397"
    /\ LET args == calls[c].args
       IN  calls' = [calls EXCEPT ![c] =
               ReportCallAt(args,
                   RaToLine397(RaFromLine397(validator, calls[c].frame, args.report_text,
                                             args.source_data),
                               args.report_text, args.source_data))]
    /\ UNCHANGED <<result, validator, last, inputs, objects, checked_urls, requests, now,
                   imports>>

\* the caller has read what its call returned
ThreadForget(c) ==
    /\ calls[c].pc = "returned"
    /\ calls' = [calls EXCEPT ![c] = IdleCall]
    /\ UNCHANGED <<result, validator, last, inputs, objects, checked_urls, requests, now,
                   imports>>

NextThreads ==
    \E c \in Callers :
        \/ ThreadCallPercentChange(c)
        \/ ThreadLine116(c)
        \/ ThreadCallRange(c)
        \/ ThreadLine441(c)
        \/ ThreadLine444(c)
        \/ ThreadCallReportAccuracy(c)
        \/ ThreadLine397(c)
        \/ ThreadCallWithoutSelf(c)
        \/ ThreadForget(c)

SpecThreads == InitThreads /\ [][NextThreads]_vars

----------------------------------------------------------------------------
(* Properties of validate_percent_change *)

\* (current - previous) / previous * 100 as the specification writes it
ClaimPercent(c, p) ==
    LET num == 100 * (c.n * p.d - p.n * c.d)
        den == c.d * p.n
    IN  IF den > 0 THEN R(num, den) ELSE R(-num, -den)

\* a validate_percent_change call whose previous is non-zero and whose
\* current, previous and reported values are all defined
PcDefinedCall ==
    /\ last.op = "validate_percent_change"
    /\ IsNum(last.args.value_current)
    /\ IsNum(last.args.value_previous)
    /\ last.args.value_previous.n # 0
    /\ IsNum(last.args.reported_change)

PcClaimDifference ==
    RAbs(RSub(ClaimPercent(last.args.value_current, last.args.value_previous),
              last.args.reported_change))

\* C3: with previous # 0, all inputs defined and a tolerance supplied by the
\* caller (0 included), the call passes if and only if
\* abs((current - previous) / previous * 100 - reported) <= that tolerance.
C3_PassesIffWithinSuppliedTolerance ==
    (PcDefinedCall /\ IsNum(last.args.tolerance))
        => (last.ret.ok <=> RLe(PcClaimDifference, last.args.tolerance))

\* C4: with previous # 0 and reported equal to the exact percent change of
\* current over previous, the call passes for every tolerance >= 0.
C4_ExactReportedPasses ==
    (/\ PcDefinedCall
     /\ IsNum(last.args.tolerance)
     /\ RLe(Num(0), last.args.tolerance)
     /\ last.args.reported_change
            = ClaimPercent(last.args.value_current, last.args.value_previous))
        => (last.ret.ok /\ ~last.ret.raised)

C4_Witness ==
    /\ PcDefinedCall
    /\ last.args.value_current = Num(110)
    /\ last.args.value_previous = Num(100)
    /\ last.args.reported_change = Num(10)
    /\ last.args.tolerance = Num(0)
    /\ last.ret.ok

\* the call's previous is zero, or one of previous, current, reported is NaN/None
PcUndefinedCall ==
    /\ last.op = "validate_percent_change"
    /\ \/ last.args.value_previous = Num(0)
       \/ isna(last.args.value_previous)
       \/ isna(last.args.value_current)
       \/ isna(last.args.reported_change)

\* C5: when previous is zero, or previous, current or reported is NaN/None,
\* the call does not raise and does not divide: it returns a non-passed result
\* with an explanatory message, whatever the other arguments are.
C5_UndefinedInputNeverRaises ==
    PcUndefinedCall
        => /\ ~last.ret.raised
           /\ ~last.ret.divided
           /\ ~last.ret.ok
           /\ last.ret.message \in
                {"Cannot calculate percent change: previous value is zero or NaN",
                 "Cannot validate: current value or reported change is NaN"}

C5_Witness ==
    /\ last.op = "validate_percent_change"
    /\ last.args.value_previous = Num(0)
    /\ IsNum(last.args.value_current)
    /\ IsNum(last.args.reported_change)
    /\ ~last.ret.ok

\* C6: with no tolerance supplied, a reported percent within 1 percentage
\* point of the recomputed percent passes.
C6_DefaultIsOnePercentagePoint ==
    (PcDefinedCall /\ last.args.tolerance = None /\ RLe(PcClaimDifference, Num(1)))
        => last.ret.ok

----------------------------------------------------------------------------
(* Properties of validate_range *)

\* C7: validate_range returns invalid whenever the value is NaN, for every
\* metric_type, in the range table or not.
C7_NaNAlwaysInvalid ==
    (last.op = "validate_range" /\ last.args.value = NaN) => ~last.ret.ok

\* the range table as the specification lists it
ClaimRanges ==
    [growth_rate |-> <<Num(-50), Num(100)>>,
     cycle_length_months |-> <<Num(50), Num(75)>>,
     velocity |-> <<R(1, 2), Num(15)>>,
     correlation |-> <<Num(-1), Num(1)>>,
     percent_change |-> <<Num(-100), Num(500)>>]

ClaimInRange(value, metric_type) ==
    /\ RLe(ClaimRanges[metric_type][1], value)
    /\ RLe(value, ClaimRanges[metric_type][2])

\* C8: for a defined value, validate_range is valid iff the metric_type is
\* not in the table or min <= value <= max, both bounds inclusive;
\* validate_cycle_length and validate_correlation judge by their own range.
C8_ValidIffInRange ==
    /\ (last.op = "validate_range" /\ IsNum(last.args.value))
         => (last.ret.ok <=>
                \/ last.args.metric_type \notin DOMAIN ClaimRanges
                \/ ClaimInRange(last.args.value, last.args.metric_type))
    /\ (last.op = "validate_cycle_length" /\ IsNum(last.args.value))
         => (last.ret.ok <=> ClaimInRange(last.args.value, "cycle_length_months"))
    /\ (last.op = "validate_correlation" /\ IsNum(last.args.value))
         => (last.ret.ok <=> ClaimInRange(last.args.value, "correlation"))

C8_Witness ==
    /\ last.op = "validate_correlation"
    /\ last.args.value = Num(1)
    /\ last.ret.ok

----------------------------------------------------------------------------
(* Properties of ValidationResult *)

AddedWarningOrPassed ==
    \/ Len(result'.warnings) = Len(result.warnings) + 1
    \/ Len(result'.passed) = Len(result.passed) + 1

\* C1: after any sequence of add_error, add_warning and add_passed calls,
\* is_valid is true exactly when the errors list is empty; add_warning and
\* add_passed change neither is_valid nor the errors list.
C1_IsValidIffNoErrors ==
    /\ [](result.is_valid <=> (result.errors = <<>>))
    /\ [][AddedWarningOrPassed =>
            /\ result'.is_valid = result.is_valid
            /\ result'.errors = result.errors]_vars

C1_Witness ==
    /\ Len(result.warnings) >= 1
    /\ Len(result.passed) >= 1
    /\ result.errors = <<>>
    /\ result.is_valid

\* the operations that return a ValidationResult to their caller
ReportOperations ==
    {"validate_monetary_aggregates_hierarchy", "validate_policy_stance_consistency",
     "validate_balance_sheet_calculations", "CentralBankAnalyzer.validate_output"}

ReturnedReport == last.op \in ReportOperations /\ ~IsRaised(last.ret)

\* C2: every ValidationResult a validation operation returns has
\* is_valid = (errors is empty), also when a sub-result's errors were merged in.
C2_ReturnedIsValidIffNoErrors ==
    ReturnedReport => (last.ret.is_valid <=> (last.ret.errors = <<>>))

----------------------------------------------------------------------------
(* Properties of validate_monetary_aggregates_hierarchy *)

HierCall == last.op = "validate_monetary_aggregates_hierarchy"

\* the positions of the hierarchy whose key the input holds
HierPresent == {i \in 1..Len(hierarchy) : hierarchy[i] \in DOMAIN last.args.aggregates}

HierValueAt(i) == last.args.aggregates[hierarchy[i]]

HierAllPositive == \A i \in HierPresent : RGt(HierValueAt(i), Num(0))

\* the pairs the loop compares: neighbours in the hierarchy, both present
HierPairs == {i \in 1..(Len(hierarchy) - 1) : i \in HierPresent /\ i + 1 \in HierPresent}

\* the input read as a sequence: each present value next to the next present one
HierSequenceNonDecreasing ==
    \A i \in HierPresent, j \in HierPresent :
        (i < j /\ \A m \in HierPresent : ~(i < m /\ m < j))
            => RLe(HierValueAt(i), HierValueAt(j))

HierPairsNonDecreasing ==
    \A i \in HierPairs : RLe(HierValueAt(i), HierValueAt(i + 1))

HierContiguous ==
    /\ HierPresent # {}
    /\ \A i \in HierPresent, j \in HierPresent, m \in 1..Len(hierarchy) :
           (i < m /\ m < j) => m \in HierPresent

\* C9 as first stated: a positive, non-decreasing sequence yields no error
\* entry and exactly len(sequence) - 1 passed entries.
C9_PassedIsLenMinusOne ==
    (/\ HierCall
     /\ Cardinality(HierPresent) >= 2
     /\ HierAllPositive
     /\ HierSequenceNonDecreasing)
        => /\ last.ret.errors = <<>>
           /\ Len(last.ret.passed) = Cardinality(HierPresent) - 1

\* C9, amended: a positive input whose compared pairs are non-decreasing
\* yields no error entry, one passed entry per compared pair and one closing
\* summary entry: len(sequence) passed entries for a run of neighbouring
\* aggregates, 4 for M0..M3.
C9_PassedIsPairsPlusSummary ==
    (HierCall /\ HierAllPositive /\ HierPairsNonDecreasing)
        => /\ last.ret.errors = <<>>
           /\ last.ret.is_valid
           /\ Len(last.ret.passed) = Cardinality(HierPairs) + 1
           /\ last.ret.passed[Len(last.ret.passed)].message
                  = "Monetary aggregates hierarchy is correct"
           /\ HierContiguous => Len(last.ret.passed) = Cardinality(HierPresent)

C9_Witness ==
    /\ HierCall
    /\ HierPresent = 1..Len(hierarchy)
    /\ HierAllPositive
    /\ HierSequenceNonDecreasing
    /\ RLt(HierValueAt(1), HierValueAt(4))
    /\ Len(last.ret.passed) = 4

EntriesWith(entries, message) ==
    {j \in 1..Len(entries) : entries[j].message = message}

HierViolationMessage(i) ==
    "Hierarchy violation: " \o hierarchy[i] \o " > " \o hierarchy[i + 1]

HierPassedMessage(i) == hierarchy[i] \o " <= " \o hierarchy[i + 1]

\* C10: with all values positive the check walks every compared pair: a pair
\* with v[i] > v[i+1] has its own error entry, a pair with v[i] <= v[i+1] its
\* own passed entry, the errors are as many as the violating pairs, and
\* [10, 8, 20] yields exactly one error and one passed entry.
C10_OneEntryPerPair ==
    (HierCall /\ HierAllPositive)
        => /\ \A i \in HierPairs :
                IF RGt(HierValueAt(i), HierValueAt(i + 1))
                THEN /\ Cardinality(EntriesWith(last.ret.errors, HierViolationMessage(i))) = 1
                     /\ EntriesWith(last.ret.passed, HierPassedMessage(i)) = {}
                ELSE /\ Cardinality(EntriesWith(last.ret.passed, HierPassedMessage(i))) = 1
                     /\ EntriesWith(last.ret.errors, HierViolationMessage(i)) = {}
           /\ Len(last.ret.errors)
                = Cardinality({i \in HierPairs : RGt(HierValueAt(i), HierValueAt(i + 1))})
           /\ last.args.aggregates = [M0 |-> Num(10), M1 |-> Num(8), M2 |-> Num(20)]
                => Len(last.ret.errors) = 1 /\ Len(last.ret.passed) = 1

C10_Witness ==
    /\ HierCall
    /\ last.args.aggregates = [M0 |-> Num(10), M1 |-> Num(8), M2 |-> Num(20)]
    /\ Len(last.ret.errors) = 1
    /\ Len(last.ret.passed) = 1

----------------------------------------------------------------------------
(* Properties of the hierarchy check's handling of unusable values *)

\* the positions of the hierarchy whose key the input lacks
HierAbsent == (1..Len(hierarchy)) \ HierPresent

\* the present positions whose value is NaN, None, zero or negative
HierUnusable ==
    {i \in HierPresent : isna(HierValueAt(i)) \/ RLe(HierValueAt(i), Num(0))}

HierPairEntries(entries) ==
    UNION {EntriesWith(entries, HierViolationMessage(i))
               \cup EntriesWith(entries, HierPassedMessage(i)) :
           i \in 1..(Len(hierarchy) - 1)}

\* C11 as first stated: a value of the hierarchy that is absent from the
\* input, NaN, zero or negative makes the check return an error entry with
\* is_valid false, and no pair is compared.
C11_MissingValueIsError ==
    (HierCall /\ last.args.aggregates # <<>> /\ (HierAbsent # {} \/ HierUnusable # {}))
        => /\ last.ret.errors # <<>>
           /\ ~last.ret.is_valid
           /\ HierPairEntries(last.ret.errors) = {}
           /\ HierPairEntries(last.ret.passed) = {}

\* C11, amended: a value held by the input that is NaN, None, zero or
\* negative makes the check return exactly one entry, an error naming the
\* first such aggregate, with is_valid false and no pair compared; a key the
\* input does not hold is left out without an error entry of its own.
C11_UnusablePresentValueIsError ==
    HierCall =>
        /\ HierUnusable # {} =>
               /\ Len(last.ret.errors) = 1
               /\ \E i \in HierUnusable :
                      /\ \A j \in HierUnusable : i <= j
                      /\ last.ret.errors[1].message
                             = hierarchy[i] \o " is missing, zero, or negative"
               /\ ~last.ret.is_valid
               /\ last.ret.passed = <<>>
               /\ last.ret.warnings = <<>>
        /\ HierUnusable = {} =>
               \A j \in 1..Len(last.ret.errors) :
                   j \in HierPairEntries(last.ret.errors)

C11_Witness ==
    /\ HierCall
    /\ HierPresent = 1..Len(hierarchy)
    /\ HierUnusable = {3}
    /\ HierValueAt(3) = Num(0)
    /\ RGt(HierValueAt(1), HierValueAt(2))
    /\ Len(last.ret.errors) = 1
    /\ ~last.ret.is_valid

----------------------------------------------------------------------------
(* Properties of the operations' failure behaviour *)

\* a numeric argument that is zero, NaN or None
ZeroNaNOrNone(x) == isna(x) \/ x = Num(0)

\* C12: called with zero, NaN or None numeric arguments, validate_percent_change,
\* validate_range, validate_monetary_aggregates_hierarchy and
\* validate_policy_stance_consistency return a result and raise nothing.
C12_DataQualityFailureNeverRaises ==
    /\ (/\ last.op = "validate_percent_change"
        /\ \/ ZeroNaNOrNone(last.args.value_current)
           \/ ZeroNaNOrNone(last.args.value_previous)
           \/ ZeroNaNOrNone(last.args.reported_change))
           => ~last.ret.raised
    /\ (last.op = "validate_range" /\ ZeroNaNOrNone(last.args.value))
           => ~IsRaised(last.ret)
    /\ (/\ HierCall
        /\ \E i \in HierPresent : ZeroNaNOrNone(HierValueAt(i)))
           => ~IsRaised(last.ret)
    /\ (/\ last.op = "validate_policy_stance_consistency"
        /\ \/ ZeroNaNOrNone(last.args.balance_sheet_change)
           \/ ZeroNaNOrNone(last.args.yoy_change))
           => ~IsRaised(last.ret)

----------------------------------------------------------------------------
(* Properties of the orchestrating operations *)

CbOperations ==
    {"validate_balance_sheet_calculations", "CentralBankAnalyzer.validate_output"}

CbLoopCall == last.op \in CbOperations /\ "by_bank" \in DOMAIN last.args.analysis_results

CbBanks == last.args.analysis_results.by_bank

\* the policy stance check of the i-th bank is reached and raises
CbStanceRaisesAt(i) ==
    LET bank_data == CbBanks[i][2]
    IN  /\ Len(BankFrame(last.args.balance_sheet_data, CbBanks[i][1])) >= 13
        /\ "policy_stance" \in DOMAIN bank_data
        /\ "recent_monthly_change" \in DOMAIN bank_data
        /\ IsRaised(validate_policy_stance_consistency(bank_data.policy_stance,
                        bank_data.recent_monthly_change, CbYoyOrZero(bank_data)))

\* the report the checks of the j-th bank produce when that bank is the only one
CbBankAlone(j) ==
    validate_balance_sheet_calculations([by_bank |-> <<CbBanks[j]>>],
                                        last.args.balance_sheet_data)

Holds(entries, entry) == \E k \in 1..Len(entries) : entries[k] = entry

Contributes(part, whole) ==
    /\ \A k \in 1..Len(part.errors) : Holds(whole.errors, part.errors[k])
    /\ \A k \in 1..Len(part.warnings) : Holds(whole.warnings, part.warnings[k])
    /\ \A k \in 1..Len(part.passed) : Holds(whole.passed, part.passed[k])

\* C13: in the per-bank loop of validate_balance_sheet_calculations an
\* exception raised inside one bank's policy stance check becomes an error
\* entry named for that check, and the checks of every later bank are still
\* run and contribute their entries to the returned report.
C13_RaisingCheckDoesNotStopTheRest ==
    CbLoopCall =>
        \A i \in 1..Len(CbBanks) :
            (CbStanceRaisesAt(i) /\ \A h \in 1..(i - 1) : ~CbStanceRaisesAt(h)) =>
                /\ \E k \in 1..Len(last.ret.errors) :
                       last.ret.errors[k].check = "policy_stance_consistency"
                /\ \A j \in (i + 1)..Len(CbBanks) :
                       Contributes(CbBankAlone(j), last.ret)

----------------------------------------------------------------------------
(* Properties of the category-consistency checks: policy stance against    *)
(* balance-sheet direction, cycle phase against recent trend               *)

StanceCall == last.op = "validate_policy_stance_consistency"

PhaseCall ==
    /\ last.op = "validate_cycle_phase_consistency"
    /\ "current_phase" \in DOMAIN last.args.cycle_analysis

\* the phase the check reads: phase_info.get('phase', 'unknown')
PhaseLabel == Get(last.args.cycle_analysis.current_phase, "phase", "unknown")

NeutralStanceCall == StanceCall /\ last.args.policy_stance \notin {"expansive", "contractive"}

UnknownPhaseCall == PhaseCall /\ PhaseLabel = "unknown"

\* C14 as first stated: an unknown or neutral label (a policy stance other
\* than expansive / contractive, cycle phase unknown) passes trivially: the
\* result holds a passed entry and no warning or error entry.
C14_UnknownLabelPasses ==
    (NeutralStanceCall \/ UnknownPhaseCall)
        => /\ ~IsRaised(last.ret)
           /\ last.ret.passed # <<>>
           /\ last.ret.warnings = <<>>
           /\ last.ret.errors = <<>>

\* C14, amended: a policy stance other than expansive / contractive passes
\* trivially (one passed entry, nothing else, nothing raised, whatever the
\* signals are, None included); cycle phase unknown, or a phase_info without
\* a phase, yields one warning entry 'Phase is unknown, cannot validate', no
\* passed and no error entry, and a valid result, whatever the data are.
C14_NeutralStancePassesUnknownPhaseWarns ==
    /\ NeutralStanceCall
           => /\ ~IsRaised(last.ret)
              /\ Len(last.ret.passed) = 1
              /\ last.ret.passed[1].check = "policy_stance_consistency"
              /\ last.ret.warnings = <<>>
              /\ last.ret.errors = <<>>
              /\ last.ret.is_valid
    /\ UnknownPhaseCall
           => /\ Len(last.ret.warnings) = 1
              /\ last.ret.warnings[1].check = "cycle_phase_consistency"
              /\ last.ret.warnings[1].message = "Phase is unknown, cannot validate"
              /\ last.ret.passed = <<>>
              /\ last.ret.errors = <<>>
              /\ last.ret.is_valid

C14_Witness ==
    /\ UnknownPhaseCall
    /\ "phase" \in DOMAIN last.args.cycle_analysis.current_phase
    /\ last.args.liquidity_data = SeriesFrame(Shape(6, Num(100), Num(100), Num(50)))
    /\ Len(last.ret.warnings) = 1
    /\ last.ret.passed = <<>>

Severity(r) ==
    IF r.errors # <<>> THEN "error" ELSE IF r.warnings # <<>> THEN "warning" ELSE "passed"

\* the label that reads the opposite direction
Opposite(label) ==
    CASE label = "expansive" -> "contractive"
      [] label = "contractive" -> "expansive"
      [] label = "expansion" -> "contraction"
      [] label = "contraction" -> "expansion"

Minus(x) == RSub(Num(0), x)

DirectedStanceCall ==
    /\ StanceCall
    /\ last.args.policy_stance \in {"expansive", "contractive"}
    /\ IsNum(last.args.balance_sheet_change)
    /\ IsNum(last.args.yoy_change)

\* the phase check reaches the comparison of the phase with the trend
TrendCall ==
    /\ PhaseCall
    /\ PhaseLabel # "unknown"
    /\ last.args.liquidity_data.columns = {"date", "liquidity_index"}
    /\ Len(last.args.liquidity_data.rows) >= 6

\* the value of the row that is k rows before the newest one
ValueBeforeNewest(k) ==
    LET rows == last.args.liquidity_data.rows
        newest == CHOOSE d \in {rows[i].date : i \in 1..Len(rows)} :
                      \A i \in 1..Len(rows) : rows[i].date <= d
        row == CHOOSE i \in 1..Len(rows) : rows[i].date = newest - k
    IN  rows[row].liquidity_index

\* the change from the row k + 1 before the newest to the row k before it
ChangeBeforeNewest(k) ==
    RSub(RDiv(ValueBeforeNewest(k), ValueBeforeNewest(k + 1)), Num(1))

\* the mean of the last five month-on-month changes, in percent
ClaimTrendPct ==
    RMul(RDiv(RAdd(ChangeBeforeNewest(0),
                   RAdd(ChangeBeforeNewest(1),
                        RAdd(ChangeBeforeNewest(2),
                             RAdd(ChangeBeforeNewest(3), ChangeBeforeNewest(4))))),
              Num(5)),
         Num(100))

TrendMessages == {"Expansion phase but negative trend", "Contraction phase but positive trend"}

TrendErrors == {k \in 1..Len(last.ret.errors) : last.ret.errors[k].message \in TrendMessages}

TrendWarnings ==
    {k \in 1..Len(last.ret.warnings) : last.ret.warnings[k].message \in TrendMessages}

TrendSeverity ==
    IF TrendErrors # {} THEN "error" ELSE IF TrendWarnings # {} THEN "warning" ELSE "passed"

\* C15 as first stated: an inconsistency is graded by the strength of the
\* signal and the severity does not depend on which label is checked: a label
\* and the opposite label, each against the signals mirrored, get the same
\* severity.
C15_SeverityIndependentOfLabel ==
    /\ DirectedStanceCall
           => Severity(last.ret)
                = Severity(validate_policy_stance_consistency(
                               Opposite(last.args.policy_stance),
                               Minus(last.args.balance_sheet_change),
                               Minus(last.args.yoy_change)))
    /\ (TrendCall /\ PhaseLabel \in {"expansion", "contraction"})
           => TrendSeverity
                = Severity(CpTrendCheck(ValidationResult__init__, Opposite(PhaseLabel),
                                        Minus(ClaimTrendPct)))

\* C15, amended: each label has one threshold and its own severity.  An
\* expansive stance with change < 0 and yoy < -5 is an error and never a
\* warning; a contractive stance with change > 0 and yoy > 5 is a warning and
\* never an error.  Phase expansion with a trend below -2 percent is an
\* error, phase contraction with a trend above 2 percent a warning; peak and
\* trough are never found inconsistent.  A stronger signal changes nothing.
C15_OneThresholdPerLabel ==
    /\ (DirectedStanceCall /\ last.args.policy_stance = "expansive")
           => /\ last.ret.warnings = <<>>
              /\ last.ret.errors # <<>>
                    <=> /\ RLt(last.args.balance_sheet_change, Num(0))
                        /\ RLt(last.args.yoy_change, Num(-5))
    /\ (DirectedStanceCall /\ last.args.policy_stance = "contractive")
           => /\ last.ret.errors = <<>>
              /\ last.ret.warnings # <<>>
                    <=> /\ RGt(last.args.balance_sheet_change, Num(0))
                        /\ RGt(last.args.yoy_change, Num(5))
    /\ (TrendCall /\ PhaseLabel = "expansion")
           => /\ TrendWarnings = {}
              /\ TrendErrors # {} <=> RLt(ClaimTrendPct, Num(-2))
    /\ (TrendCall /\ PhaseLabel = "contraction")
           => /\ TrendErrors = {}
              /\ TrendWarnings # {} <=> RGt(ClaimTrendPct, Num(2))
    /\ (TrendCall /\ PhaseLabel \in {"peak", "trough"})
           => TrendErrors = {} /\ TrendWarnings = {}

C15_Witness ==
    /\ TrendCall
    /\ PhaseLabel = "contraction"
    /\ ClaimTrendPct = Num(10)
    /\ TrendWarnings # {}
    /\ TrendErrors = {}

----------------------------------------------------------------------------
(* Properties of the percent-change comparisons inside the reports *)

\* the growth-rate check reaches its year-over-year comparison
GrowthCompareCall ==
    /\ last.op = "validate_growth_rate_consistency"
    /\ last.args.data.columns = {"date", "liquidity_index"}
    /\ Len(last.args.data.rows) >= 13

\* the value 12 rows before the newest row of data
GrowthValue12mAgo ==
    LET rows == last.args.data.rows
        row == CHOOSE i \in 1..Len(rows) : rows[i].date = Len(rows) - 12
    IN  rows[row].liquidity_index

\* the loop reaches the year-over-year comparison of the i-th bank
CbYoyReachedAt(i) ==
    /\ \A h \in 1..(i - 1) : ~CbStanceRaisesAt(h)
    /\ Len(BankFrame(last.args.balance_sheet_data, CbBanks[i][1])) >= 13
    /\ "yoy_change_percent" \in DOMAIN CbBanks[i][2]

CbAssets12mAgo(i) ==
    iloc(BankFrame(last.args.balance_sheet_data, CbBanks[i][1]), -13).total_assets

ChecksNamed(entries, check_name) ==
    {k \in 1..Len(entries) : entries[k].check = check_name}

\* the report holds a skipped / warning entry for the check, and neither a
\* passed nor an error entry
ReportedAsInconclusive(r, check_name) ==
    /\ ChecksNamed(r.warnings, check_name) # {}
    /\ ChecksNamed(r.passed, check_name) = {}
    /\ ChecksNamed(r.errors, check_name) = {}

\* C16: when the denominator of a percent-change comparison (the value 12
\* months ago) is zero, the returned report holds an entry for that
\* comparison with a skipped or warning status; the comparison is never
\* left out of the report.
C16_ZeroDenominatorIsReported ==
    /\ (GrowthCompareCall /\ GrowthValue12mAgo = Num(0))
           => ReportedAsInconclusive(last.ret, "growth_rate_consistency")
    /\ CbLoopCall
           => \A i \in 1..Len(CbBanks) :
                  (CbYoyReachedAt(i) /\ CbAssets12mAgo(i) = Num(0))
                      => ReportedAsInconclusive(last.ret, CbBanks[i][1] \o "_yoy_change")

----------------------------------------------------------------------------
(* Properties of the checks on a history that is too short *)

\* the report holds an informational entry and no error, and is valid
InformationalOnly(r) ==
    /\ r.warnings # <<>> \/ r.passed # <<>>
    /\ r.errors = <<>>
    /\ r.is_valid

\* the phase check of a known phase, on fewer than 6 rows
ShortPhaseHistoryCall ==
    /\ PhaseCall
    /\ PhaseLabel # "unknown"
    /\ Len(last.args.liquidity_data.rows) < 6

ShortGrowthHistoryCall ==
    /\ last.op = "validate_growth_rate_consistency"
    /\ Len(last.args.data.rows) < 13

\* comprehensive_validation of a known phase on fewer than 6 rows, or on no
\* source_data at all
ShortComprehensiveCall ==
    /\ last.op = "comprehensive_validation"
    /\ "current_phase" \in DOMAIN last.args.analysis_results
    /\ Get(last.args.analysis_results.current_phase, "phase", "unknown") # "unknown"
    /\ \/ last.args.source_data = None
       \/ Len(CvSourceOrEmpty(last.args.source_data).rows) < 6

\* C17: a history too short for a check (fewer than 6 rows for the phase /
\* trend check, fewer than 13 for growth-rate consistency, the empty table
\* that comprehensive_validation substitutes for a missing source_data
\* included) is reported as an informational non-error entry and leaves the
\* report valid.
C17_ShortHistoryLeavesReportValid ==
    (ShortPhaseHistoryCall \/ ShortGrowthHistoryCall \/ ShortComprehensiveCall)
        => InformationalOnly(last.ret)

----------------------------------------------------------------------------
(* Properties of the order of a report's entries.  The cycle phase check   *)
(* evaluates the phase against the trend first (lines 247-264) and the     *)
(* cycle completion second (lines 266-282); comprehensive_validation       *)
(* merges its report.                                                      *)

PhaseReportCall ==
    /\ last.op \in {"validate_cycle_phase_consistency", "comprehensive_validation"}
    /\ ~IsRaised(last.ret)

\* the rows of the check that ran first, and of the check that ran second
FirstCheckRows(rows) ==
    {k \in 1..Len(rows) : /\ rows[k].check = "cycle_phase_consistency"
                          /\ rows[k].message # "Error validating cycle phase"}

SecondCheckRows(rows) ==
    {k \in 1..Len(rows) : rows[k].check = "cycle_completion_consistency"}

\* 1 for a row of the errors, 2 of the warnings, 3 of the passed list
StatusRank(r, k) ==
    IF k <= Len(r.errors) THEN 1
    ELSE IF k <= Len(r.errors) + Len(r.warnings) THEN 2 ELSE 3

\* C18 as first stated: the report is one ordered list whose order is the
\* order in which the checks were evaluated, whatever their status: the
\* entry of the check that ran first comes before the entry of the check
\* that ran second.
C18_RowsInEvaluationOrder ==
    PhaseReportCall =>
        \A t \in FirstCheckRows(ReportRows(last.ret)),
           c \in SecondCheckRows(ReportRows(last.ret)) : t < c

\* C18, amended: the report is three lists, one per status.  Entries of
\* the same status keep the order in which their checks were evaluated;
\* between entries of different status the report read as one list orders by
\* status (errors, warnings, passed) and not by evaluation.
C18_OrderKeptWithinEachStatus ==
    PhaseReportCall =>
        LET rows == ReportRows(last.ret)
        IN  /\ \A t \in FirstCheckRows(rows), c \in SecondCheckRows(rows) :
                   IF StatusRank(last.ret, t) = StatusRank(last.ret, c)
                   THEN t < c
                   ELSE (t < c) <=> (StatusRank(last.ret, t) < StatusRank(last.ret, c))
            /\ \A c \in SecondCheckRows(last.ret.passed) :
                   \A t \in FirstCheckRows(last.ret.passed) : t < c
            /\ \A c \in SecondCheckRows(last.ret.errors) :
                   \A t \in FirstCheckRows(last.ret.errors) : t < c

C18_Witness ==
    /\ last.op = "comprehensive_validation"
    /\ FirstCheckRows(last.ret.passed) = {1}
    /\ SecondCheckRows(last.ret.passed) = {2}
    /\ last.ret.errors = <<>>

----------------------------------------------------------------------------
(* Properties of the validator's own state *)

\* what the call of frame returns when it is the only call ever made on a
\* validator constructed with that tolerance: the operation as a whole
ReturnedAlone(frame, tolerance) ==
    LET alone == OutputValidator__init__(tolerance)
        args == frame.args
    IN  CASE frame.op = "validate_percent_change" ->
                 validate_percent_change(alone, args.value_current, args.value_previous,
                                         args.reported_change, args.tolerance)
          [] frame.op = "validate_range" ->
                 validate_range(alone, args.value, args.metric_type)
          [] frame.op = "validate_cycle_length" ->
                 validate_cycle_length(alone, args.value)
          [] frame.op = "validate_correlation" ->
                 validate_correlation(alone, args.value)
          [] frame.op = "validate_report_numerical_accuracy" ->
                 validate_report_numerical_accuracy(alone, args.report_text,
                                                    args.source_data)
          [] frame.op = "validate_growth_rate_consistency" ->
                 validate_growth_rate_consistency(args.analysis_results, args.data,
                                                  "liquidity_index", "date")
          [] frame.op = "validate_cycle_phase_consistency" ->
                 validate_cycle_phase_consistency(args.analysis_results, args.data,
                                                  "liquidity_index", "date")
          [] frame.op = "comprehensive_validation" ->
                 comprehensive_validation(args.analysis_results, args.data)
          [] frame.op = "validate_monetary_aggregates_hierarchy" ->
                 validate_monetary_aggregates_hierarchy(args.aggregates)
          [] frame.op = "validate_policy_stance_consistency" ->
                 validate_policy_stance_consistency(args.policy_stance,
                     args.balance_sheet_change, args.yoy_change)

\* no step of any call changes the validator
NoStepWritesTheValidator == [][validator' = validator]_vars

\* whatever the other callers' calls did in between, a call has returned
\* what it returns alone
EachCallReturnsAsAlone ==
    \A c \in Callers :
        calls[c].pc = "returned" => calls[c].ret = ReturnedAlone(calls[c], inputs.tolerance)

\* C20: no step of a validation call writes self.tolerance or
\* self.expected_ranges, and in every interleaving of the steps of calls made
\* by several callers on one validator, each call returns the report it
\* returns when run alone.
C20_NoCallWritesTheValidator ==
    /\ NoStepWritesTheValidator
    /\ []EachCallReturnsAsAlone

\* caller A's call with a tolerance of its own has returned while caller B's
\* call stands between its two reads of self.expected_ranges
C20_Witness ==
    /\ calls["A"].pc = "returned"
    /\ calls["A"].op = "validate_percent_change"
    /\ calls["A"].args.tolerance = Num(5)
    /\ calls["A"].args.reported_change = Num(12)
    /\ calls["A"].ret.ok
    /\ calls["B"].pc = "line444"
    /\ calls["B"].op = "validate_cycle_length"
    /\ validator = OutputValidator__init__(DefaultTolerance)

----------------------------------------------------------------------------
(* Properties of the operations' effect on what the caller holds *)

\* a call has returned: the caller holds one report more
FrameCallStep == Len(inputs'.reports) = Len(inputs.reports) + 1

\* the report the call returned
FrameReturnedReport == inputs'.reports[Len(inputs'.reports)]

\* every object alive before the call (the table, the analysis_results, each
\* report held and its lists) is as it was
FrameObjectsKept ==
    \A ref \in DOMAIN objects : ref \in DOMAIN objects' /\ objects'[ref] = objects[ref]

\* the reports held that read differently after the step
FrameReportsChanged ==
    {i \in 1..Len(inputs.reports) :
        ReportRead(objects', inputs.reports[i]) # ReportRead(objects, inputs.reports[i])}

\* a step in which the holder of a report calls one of its add_* methods
FrameAddStep ==
    /\ last.op = "idle"
    /\ last'.op \in {"add_error", "add_warning", "add_passed"}

\* the report whose method was called, unless the call raised
FrameReportsAddedTo ==
    IF IsRaised(last'.ret) THEN {} ELSE {last'.args.report}

\* no object is part of two of the reports held
FrameNoReportShared ==
    \A i, j \in 1..Len(inputs.reports) :
        i # j => ReportObjects(objects, inputs.reports[i])
                     \cap ReportObjects(objects, inputs.reports[j]) = {}

\* C21: a validation call leaves the caller's table (row order, columns,
\* values) and analysis_results as they were and returns a new
\* ValidationResult object: the call changes no object that was alive before
\* it, the report it returns and the lists of that report are none of them,
\* and an entry added to one report appears in no other.
C21_InputsUnchangedReportsFresh ==
    /\ [][/\ inputs'.analysis_results = inputs.analysis_results
          /\ inputs'.data = inputs.data]_vars
    /\ [][FrameCallStep =>
            /\ FrameObjectsKept
            /\ ReportObjects(objects', FrameReturnedReport) \cap DOMAIN objects = {}]_vars
    /\ [][FrameAddStep =>
            /\ FrameReportsChanged = FrameReportsAddedTo
            /\ objects'[inputs.data] = objects[inputs.data]
            /\ objects'[inputs.analysis_results] = objects[inputs.analysis_results]]_vars
    /\ []FrameNoReportShared

\* a table of 13 monthly rows whose dates are text, still as the caller made
\* it after two calls of validate_growth_calculations; the first report
\* holds the entry its holder added, the second what the first held before
C21_Witness ==
    /\ inputs.kind = "monetary"
    /\ VALIDATOR_AVAILABLE
    /\ objects[inputs.data]
           = DataFrameObject(MaFrame({"date", "M0", "M2"},
                                     MaShape(13, Num(300), Num(300), Num(330))), "object")
    /\ objects[inputs.data].rows[1].date = 13
    /\ Len(inputs.reports) = 2
    /\ ChecksNamed(ReportRead(objects, inputs.reports[1]).warnings, "caller_note") # {}
    /\ ChecksNamed(ReportRead(objects, inputs.reports[2]).warnings, "caller_note") = {}
    /\ ChecksNamed(ReportRead(objects, inputs.reports[2]).passed, "M2_yoy_growth") # {}
    /\ ReportRead(objects, inputs.reports[2]).passed
           = ReportRead(objects, inputs.reports[1]).passed

----------------------------------------------------------------------------
(* The phase check on a known phase with enough history *)

\* the numeric fields of the phase info hold numbers; the months to the
\* turning point may be None, as the analyzer reports it past the cycle length
WellFormedPhaseInfo ==
    LET phase_info == last.args.cycle_analysis.current_phase
    IN  /\ "phase" \in DOMAIN phase_info
        /\ \A key \in DOMAIN phase_info \cap {"cycle_completion_percent", "months_elapsed"} :
               IsNum(phase_info[key])
        /\ "months_to_turning_point" \in DOMAIN phase_info
               => phase_info.months_to_turning_point.k \in {"num", "none"}

PhaseEntriesIn(entries) == ChecksNamed(entries, "cycle_phase_consistency")

\* C22: for a known phase, well-formed numeric phase info and at least 6 rows,
\* validate_cycle_phase_consistency adds exactly one entry named
\* 'cycle_phase_consistency': an error iff the phase is 'expansion' and the
\* mean percent change over the last 6 points is below -2, a warning iff the
\* phase is 'contraction' and that mean is above 2, a passed entry otherwise.
C22_OnePhaseEntryBySeverity ==
    (TrendCall /\ WellFormedPhaseInfo) =>
        LET inError == PhaseLabel = "expansion" /\ RLt(ClaimTrendPct, Num(-2))
            inWarning == PhaseLabel = "contraction" /\ RGt(ClaimTrendPct, Num(2))
        IN  /\ Cardinality(PhaseEntriesIn(last.ret.errors))
                  = (IF inError THEN 1 ELSE 0)
            /\ Cardinality(PhaseEntriesIn(last.ret.warnings))
                  = (IF inWarning THEN 1 ELSE 0)
            /\ Cardinality(PhaseEntriesIn(last.ret.passed))
                  = (IF inError \/ inWarning THEN 0 ELSE 1)

\* a peak over a falling series passes the phase check while the completion
\* check of the same call reports a mismatch
C22_Witness ==
    /\ TrendCall
    /\ WellFormedPhaseInfo
    /\ PhaseLabel = "peak"
    /\ RLt(ClaimTrendPct, Num(-2))
    /\ PhaseEntriesIn(last.ret.passed) # {}
    /\ ChecksNamed(last.ret.errors, "cycle_completion_consistency") # {}

----------------------------------------------------------------------------
(* The hierarchy check over aggregates that are not neighbours *)

\* C24: if validate_monetary_aggregates_hierarchy returns a result with no
\* error entry, then any two aggregates present in its input are ordered as
\* the hierarchy requires, also when an aggregate between them is absent:
\* for present keys X before Y in M0, M1, M2, M3, value(X) <= value(Y).
C24_NoErrorMeansPairwiseOrdered ==
    (HierCall /\ last.ret.errors = <<>>) =>
        \A i \in HierPresent : \A j \in HierPresent :
            i < j => RLe(HierValueAt(i), HierValueAt(j))

----------------------------------------------------------------------------
(* The analyzers' own figures against the validator *)

\* a stance check of the stance the analyzer derives from the same changes
OwnStanceCall ==
    /\ StanceCall
    /\ ~DeterminePolicyStanceRaises(last.args.balance_sheet_change, last.args.yoy_change)
    /\ last.args.policy_stance
          = determine_policy_stance(last.args.balance_sheet_change, last.args.yoy_change)

\* C26: the analyzer's own policy stance never fails its validator: for every
\* pair (recent_change, yoy_change) the check of
\* _determine_policy_stance(recent_change, yoy_change) against the same pair
\* yields exactly one passed entry and no error or warning entry.
C26_OwnStancePasses ==
    OwnStanceCall =>
        /\ ~IsRaised(last.ret)
        /\ Len(last.ret.passed) = 1
        /\ last.ret.errors = <<>>
        /\ last.ret.warnings = <<>>
        /\ last.ret.is_valid

C26_Witness ==
    /\ OwnStanceCall
    /\ last.args.policy_stance = "contractive"
    /\ RLt(last.args.yoy_change, Num(-5))
    /\ Len(last.ret.passed) = 1

----------------------------------------------------------------------------
(* The growth-rate consistency check on a series without zeros *)

\* the value of the row of data that is k rows before the newest one
GrowthValueBeforeNewest(k) ==
    LET rows == last.args.data.rows
        row == CHOOSE i \in 1..Len(rows) : rows[i].date = Len(rows) - k
    IN  rows[row].liquidity_index

GrowthWarnings == ChecksNamed(last.ret.warnings, "growth_rate_consistency")

\* C29: for a series of at least 13 rows whose last 13 values are all
\* non-zero and defined, validate_growth_rate_consistency returns exactly one
\* passed entry and no warning (the 12 month-over-month ratios compound to
\* the ratio of the last value to the value 12 rows earlier); a warning of
\* the comparison arises only when one of the intermediate values is zero.
C29_NoZeroNoWarning ==
    GrowthCompareCall =>
        /\ (\A k \in 0..12 : IsNum(GrowthValueBeforeNewest(k))
                                /\ GrowthValueBeforeNewest(k) # Num(0))
               => /\ Len(last.ret.passed) = 1
                  /\ last.ret.passed[1].check = "growth_rate_consistency"
                  /\ last.ret.warnings = <<>>
                  /\ last.ret.errors = <<>>
        /\ GrowthWarnings # {}
               => \E k \in 1..11 : GrowthValueBeforeNewest(k) = Num(0)

\* a series that halves and recovers on its way to +10% passes
C29_Witness ==
    /\ GrowthCompareCall
    /\ GrowthValueBeforeNewest(12) = Num(100)
    /\ GrowthValueBeforeNewest(6) = Num(50)
    /\ GrowthValueBeforeNewest(0) = Num(110)
    /\ Len(last.ret.passed) = 1
    /\ last.ret.warnings = <<>>

----------------------------------------------------------------------------
(* MonetaryAggregatesAnalyzer.validate_output and its constituent checks *)

MaOutputCall ==
    /\ last.op = "MonetaryAggregatesAnalyzer.validate_output"
    /\ VALIDATOR_AVAILABLE

\* the growth-rate consistency check as validate_output runs it (lines 400-407)
MaConsistencyRun ==
    validate_growth_rate_consistency(last.args.analysis_results, last.args.monetary_data,
                                     value_columns[1], "date")

\* the errors the constituent checks of the call produce
MaConstituentErrors ==
    validate_growth_calculations(last.args.analysis_results,
                                 last.args.monetary_data).errors
    \o MaHierarchyCheck(ValidationResult__init__, last.args.analysis_results).errors
    \o (IF Len(last.args.monetary_data.rows) >= 13 THEN MaConsistencyRun.errors ELSE <<>>)

\* C25: MonetaryAggregatesAnalyzer.validate_output returns a report that
\* contains every error entry produced by each of its constituent checks
\* (growth calculations, aggregates hierarchy, growth-rate consistency), and
\* its is_valid is true only if none of them produced an error.
C25_ReportHoldsEveryConstituentError ==
    MaOutputCall =>
        /\ \A k \in 1..Len(MaConstituentErrors) :
               \E h \in 1..Len(last.ret.errors) : last.ret.errors[h] = MaConstituentErrors[k]
        /\ last.ret.is_valid => MaConstituentErrors = <<>>

----------------------------------------------------------------------------
(* The growth figures an analyzer reports, validated against its own data *)

\* validate_growth_calculations is run on what analyze_aggregates returned
\* for the same table
OwnGrowthCall ==
    /\ last.op = "validate_growth_calculations"
    /\ VALIDATOR_AVAILABLE
    /\ "date" \in last.args.monetary_data.columns
    /\ last.args.analysis_results = analyze_aggregates(last.args.monetary_data)

\* validate_balance_sheet_calculations is run on what analyze_balance_sheet
\* returned for the same table
OwnBalanceSheetCall ==
    /\ last.op = "validate_balance_sheet_calculations"
    /\ VALIDATOR_AVAILABLE
    /\ \A i \in 1..Len(last.args.balance_sheet_data) :
           /\ IsNum(last.args.balance_sheet_data[i].total_assets)
           /\ last.args.balance_sheet_data[i].total_assets # Num(0)
    /\ last.args.analysis_results = analyze_balance_sheet(last.args.balance_sheet_data)

\* the column holds at least 13 values, none of them zero or undefined
LongNonZero(rows, column) ==
    /\ Len(rows) >= 13
    /\ \A i \in 1..Len(rows) : IsNum(rows[i][column]) /\ rows[i][column] # Num(0)

PassedNotFailed(r, check_name) ==
    /\ ChecksNamed(r.passed, check_name) # {}
    /\ ChecksNamed(r.errors, check_name) = {}

\* C28: validating an analyzer's own growth figures against the data they
\* were computed from reports no percent-change error: for a series of at
\* least 13 non-zero values the YoY and MoM values of analyze_aggregates and
\* the YoY value of analyze_balance_sheet, rounded to 2 decimals, are within
\* the default tolerance of what validate_percent_change recomputes, and
\* each gets a passed entry.
C28_OwnGrowthFiguresPass ==
    /\ OwnGrowthCall =>
           \A agg_type \in last.args.monetary_data.columns \ {"date"} :
               LongNonZero(last.args.monetary_data.rows, agg_type)
                   => /\ PassedNotFailed(last.ret, agg_type \o "_yoy_growth")
                      /\ PassedNotFailed(last.ret, agg_type \o "_mom_growth")
    /\ OwnBalanceSheetCall =>
           \A bank \in {"Fed", "ECB"} :
               LongNonZero(BankFrame(last.args.balance_sheet_data, bank), "total_assets")
                   => PassedNotFailed(last.ret, bank \o "_yoy_change")

\* figures that rounding changes: 301 against 300 a year ago is 0.33 for
\* 0.3333..., 330 against 7 is 4614.29 for 4614.2857...
C28_Witness ==
    \/ /\ OwnGrowthCall
       /\ LongNonZero(last.args.monetary_data.rows, "M2")
       /\ last.args.analysis_results.aggregates["M2"].current_yoy_growth = R(33, 100)
       /\ PassedNotFailed(last.ret, "M2_yoy_growth")
       /\ PassedNotFailed(last.ret, "M2_mom_growth")
    \/ /\ OwnBalanceSheetCall
       /\ LongNonZero(BankFrame(last.args.balance_sheet_data, "Fed"), "total_assets")
       /\ last.args.analysis_results.by_bank[1][2].yoy_change_percent = R(461429, 100)
       /\ PassedNotFailed(last.ret, "Fed_yoy_change")

----------------------------------------------------------------------------
(* The phase an analysis reports, validated against its own series *)

\* the phase check is run on a series and on what identify_cycles returns
\* for that series, the phase info of _determine_current_phase in it
OwnPhaseCall ==
    /\ PhaseCall
    /\ "turning_points" \in DOMAIN last.args.cycle_analysis
    /\ last.args.cycle_analysis = identify_cycles(last.args.liquidity_data)

\* C27: the analyzer's own cycle phase never fails its validator: for every
\* series from which _determine_current_phase derives a phase, the phase
\* check of the same series with that phase info produces no
\* 'cycle_phase_consistency' error.
C27_OwnPhaseNeverAnError ==
    OwnPhaseCall => PhaseEntriesIn(last.ret.errors) = {}

----------------------------------------------------------------------------
(* The analyzers without the output_validator module *)

AnalyzerValidationOps ==
    {"validate_growth_calculations", "MonetaryAggregatesAnalyzer.validate_output",
     "validate_cycle_identification", "LiquidityCycleAnalyzer.validate_output",
     "validate_balance_sheet_calculations", "CentralBankAnalyzer.validate_output"}

EmptyValidResult ==
    [errors |-> <<>>, warnings |-> <<>>, passed |-> <<>>, is_valid |-> TRUE]

\* C23: when output_validator is not importable (VALIDATOR_AVAILABLE false),
\* every analyzer validation operation returns an empty result, is_valid
\* true with no error, warning or passed entry, whatever it was handed, and
\* validate_excel_model returns None.
C23_NoValidatorNoCheck ==
    ~VALIDATOR_AVAILABLE =>
        /\ last.op \in AnalyzerValidationOps => last.ret = EmptyValidResult
        /\ last.op = "validate_excel_model" => last.ret = None

\* without the module, an analysis that names an aggregate was handed to the
\* monetary validation together with a table that has rows
C23_Witness ==
    /\ ~VALIDATOR_AVAILABLE
    /\ last.op = "MonetaryAggregatesAnalyzer.validate_output"
    /\ "aggregates" \in DOMAIN last.args.analysis_results
    /\ last.args.analysis_results.aggregates # <<>>
    /\ Len(last.args.monetary_data.rows) > 0
    /\ last.ret = EmptyValidResult

----------------------------------------------------------------------------
(* Properties of the URLValidator cache *)

\* no (url, expected_type) pair was sent to the network twice
NoPairRequestedTwice ==
    \A i, j \in 1..Len(requests) : requests[i] = requests[j] => i = j

\* a step in which a validate_url call returns to its caller: from line 64
\* on a cache hit, or having stored the result it built; last' is then that
\* call
ReturnStep ==
    \E c \in Callers :
        /\ calls'[c].pc = "idle"
        /\ \/ calls[c].pc = "idle" /\ calls' = calls /\ now' # now
           \/ calls[c].pc = "store" /\ calls[c].op = "validate_url"

\* a validate_url call returns whose key the cache holds already: a call
\* with the same pair, or one with the same key, went before
LaterCallStep ==
    /\ ReturnStep
    /\ cache_key(last'.args.url, last'.args.expected_type) \in DOMAIN checked_urls

\* a validate_url call returns that is the first with its cache key
FirstCallStep ==
    /\ ReturnStep
    /\ cache_key(last'.args.url, last'.args.expected_type) \notin DOMAIN checked_urls

\* what a step of the validator does to the cache: a first call stores what
\* it returns and sends at most one request, a later call returns what is
\* stored and sends none, and no call changes an entry once stored
CacheStep ==
    /\ \A key \in DOMAIN checked_urls :
          key \in DOMAIN checked_urls' /\ checked_urls'[key] = checked_urls[key]
    /\ FirstCallStep =>
          /\ cache_key(last'.args.url, last'.args.expected_type) \in DOMAIN checked_urls'
          /\ checked_urls'[cache_key(last'.args.url, last'.args.expected_type)] = last'.ret
          /\ Len(requests') <= Len(requests) + 1
    /\ LaterCallStep =>
          /\ last'.ret = checked_urls[cache_key(last'.args.url, last'.args.expected_type)]
          /\ requests' = requests
          /\ checked_urls' = checked_urls

\* C30: over every sequence of validate_url calls on one validator, made one
\* after the other, at most one network request is issued per
\* (url, expected_type) pair, and every later call with a pair returns the
\* result its first call stored, a timeout or connection error included,
\* whatever resource_name it passes.
C30_OneRequestPerPair == []NoPairRequestedTwice /\ [][CacheStep]_vars

\* a pair whose first check timed out or could not connect was called again
\* under another name: no second request, and the item of the first call
C30_Witness ==
    /\ last.op = "validate_url"
    /\ last.ret.evidence \in {<<"Timeout">>, <<"Connection refused">>}
    /\ last.ret.timestamp < now
    /\ last.ret.item # ItemOf(last.args.url, last.args.resource_name)
    /\ Len(requests) = 1
    /\ requests[1] = [url |-> last.args.url, expected_type |-> last.args.expected_type]

====
